---------------------------- MODULE Spec2Model ----------------------------
(***************************************************************************)
(* soundcalc: soundness (bits of security) and proof size of FRI- and      *)
(* WHIR-based circuits.  A caller builds a configuration, constructs a     *)
(* circuit from it (WHIRBasedCircuit.__init__ / FRIBasedCircuit.__init__)  *)
(* and then queries the circuit (get_security_levels,                      *)
(* get_proof_size_bits, get_name, get_parameter_summary).                  *)
(*                                                                         *)
(* Python floats are modelled as binary floating point numbers with a      *)
(* Prec-bit mantissa (round to nearest, ties to even) and the exponent     *)
(* range of an IEEE double: a result below 2^MinExp is 0.0.                *)
(***************************************************************************)
EXTENDS Integers, Sequences, FiniteSets, TLC

(***************************************************************************)
(* Bounds of the model                                                     *)
(***************************************************************************)
\* mantissa bits of the modelled float (a double has 53)
Prec == 12
\* largest num_iterations drawn for the enumerated WHIR configurations
MaxIter == 2
\* largest folding_factor drawn for the enumerated WHIR configurations
MaxFold == 2
\* largest number of FRI folding factors drawn
MaxFriRounds == 2
\* get_proof_size_bits is evaluated for circuits whose initial domain has at
\* most 2^MaxLogDomain points (larger sizes exceed 32-bit integers)
MaxLogDomain == 16

(***************************************************************************)
(* Evaluate x once and use its value in F (a local variable assignment)    *)
(***************************************************************************)
Let1(x, F(_)) == CHOOSE r \in {F(v) : v \in {x}} : TRUE
Let2(x, y, F(_, _)) == CHOOSE r \in {F(u, v) : u \in {x}, v \in {y}} : TRUE
Let3(x, y, z, F(_, _, _)) ==
  CHOOSE r \in {F(u, v, w) : u \in {x}, v \in {y}, w \in {z}} : TRUE

(***************************************************************************)
(* Floating point arithmetic: a float is sign s, mantissa m, exponent e    *)
(* and stands for s * m * 2^e, with 2^(Prec-1) <= m < 2^Prec unless it is  *)
(* 0.0                                                                     *)
(***************************************************************************)
\* smallest positive double is 2^-1074 (sys.float_info); below it: 0.0
MinExp == 0 - 1074

Pow2(n) == 2 ^ n

\* number of bits of an int n >= 0
BitLen(n) == IF n = 0 THEN 0 ELSE CHOOSE k \in 1 .. 31 : n \div Pow2(k - 1) = 1

FZero == [s |-> 0, m |-> 0, e |-> 0]

\* the value of an expression whose evaluation raised (failed assert,
\* ZeroDivisionError): it propagates through every later operation
\* (m tells which exception: 1 AssertionError, 2 IndexError,
\* 3 ZeroDivisionError)
Raise(kind) == [s |-> 2, m |-> kind, e |-> 0]
AssertionError == Raise(1)
IndexError == Raise(2)
ZeroDivisionError == Raise(3)
Raised(a) == a.s = 2
FirstRaised(a, b) == IF Raised(a) THEN a ELSE b

\* m * 2^e, where m > 0 has len bits, rounded to Prec bits (ties to even)
Round(s, m, e, len) ==
  IF e + len - 1 < MinExp THEN FZero
  ELSE IF len <= Prec
       THEN [s |-> s, m |-> m * Pow2(Prec - len), e |-> e - (Prec - len)]
       ELSE LET sh   == len - Prec
                q    == m \div Pow2(sh)
                r    == m % Pow2(sh)
                half == Pow2(sh - 1)
                q2   == IF r > half \/ (r = half /\ q % 2 = 1) THEN q + 1 ELSE q
            IN IF q2 = Pow2(Prec)
               THEN [s |-> s, m |-> Pow2(Prec - 1), e |-> e + sh + 1]
               ELSE [s |-> s, m |-> q2, e |-> e + sh]

\* the float nearest to s * m * 2^e (m >= 0)
Norm(s, m, e) ==
  Let3(s, m, e, LAMBDA s1, m1, e1 :
    IF m1 = 0 \/ s1 = 0 THEN FZero
    ELSE Let1(BitLen(m1), LAMBDA len : Round(s1, m1, e1, len)))

\* an int converted to float
FromInt(n) == IF n = 0 THEN FZero ELSE IF n > 0 THEN Norm(1, n, 0) ELSE Norm(-1, -n, 0)

\* 2 ** n for an int n (n < 0 gives the float 2^n, 0.0 below the subnormals)
Pow2F(n) == Norm(1, 1, n)

FOne == [s |-> 1, m |-> Pow2(Prec - 1), e |-> -(Prec - 1)]

FNeg(a) == Let1(a, LAMBDA x : IF Raised(x) THEN x ELSE [x EXCEPT !.s = -x.s])

\* a * b
FMul(a, b) ==
  Let2(a, b, LAMBDA x, y :
    IF Raised(x) \/ Raised(y) THEN FirstRaised(x, y)
    ELSE Norm(x.s * y.s, x.m * y.m, x.e + y.e))

\* a / b (the quotient keeps a sticky bit for the rounding); b = 0 raises
FDiv(a, b) ==
  Let2(a, b, LAMBDA x, y :
    IF Raised(x) \/ Raised(y) THEN FirstRaised(x, y)
    ELSE IF y.s = 0 THEN ZeroDivisionError
    ELSE IF x.s = 0 THEN FZero
    ELSE LET num == x.m * Pow2(Prec + 2)
             q   == num \div y.m
             st  == IF num % y.m = 0 THEN 0 ELSE 1
         IN Norm(x.s * y.s, 2 * q + st, x.e - y.e - (Prec + 2) - 1))

\* the sum of two floats that are not 0.0, hi.e >= lo.e
AddAligned(hi, lo) ==
  LET d == hi.e - lo.e
      \* beyond Prec + 2 bits lo only acts as a sticky bit
      v == IF d > Prec + 2 THEN hi.s * hi.m * 4 + lo.s
           ELSE hi.s * hi.m * Pow2(d) + lo.s * lo.m
      e == IF d > Prec + 2 THEN hi.e - 2 ELSE lo.e
  IN Norm(IF v > 0 THEN 1 ELSE IF v < 0 THEN -1 ELSE 0, IF v > 0 THEN v ELSE -v, e)

\* a + b
FAdd(a, b) ==
  Let2(a, b, LAMBDA x, y :
    IF Raised(x) \/ Raised(y) THEN FirstRaised(x, y)
    ELSE IF x.s = 0 THEN y
    ELSE IF y.s = 0 THEN x
    ELSE IF x.e >= y.e THEN AddAligned(x, y) ELSE AddAligned(y, x))

FSub(a, b) == FAdd(a, FNeg(b))

\* comparisons of values that did not raise (the sign of the difference is
\* exact)
FLt(a, b) == FSub(a, b).s = -1
FLe(a, b) == FSub(a, b).s \in {-1, 0}
FGt(a, b) == FLt(b, a)
FMin(a, b) == Let2(a, b, LAMBDA x, y : IF FLt(y, x) THEN y ELSE x)
FMax(a, b) == Let2(a, b, LAMBDA x, y : IF FGt(y, x) THEN y ELSE x)

RECURSIVE PowLoop(_, _, _)
PowLoop(x, n, acc) ==
  IF n = 0 THEN acc
  ELSE Let3(n \div 2, FMul(x, x), IF n % 2 = 1 THEN FMul(acc, x) ELSE acc,
            LAMBDA n1, x1, acc1 : PowLoop(x1, n1, acc1))

\* a ** n for an int n
FPowInt(a, n) ==
  Let2(a, n, LAMBDA x, n0 :
    IF Raised(x) THEN x
    ELSE IF n0 >= 0 THEN PowLoop(x, n0, FOne)
    ELSE FDiv(FOne, PowLoop(x, -n0, FOne)))

\* the integer square root of n, found bit by bit from bit b downwards
RECURSIVE ISqrtAux(_, _, _)
ISqrtAux(n, r, b) ==
  IF b = 0 THEN r
  ELSE Let2(IF (r + b) * (r + b) <= n THEN r + b ELSE r, b \div 2,
            LAMBDA r1, b1 : ISqrtAux(n, r1, b1))

\* math.sqrt(a) for a >= 0
FSqrt(a) ==
  Let1(a, LAMBDA x :
    IF Raised(x) THEN x
    ELSE IF x.s = 0 THEN FZero
    ELSE LET odd == (x.e + Prec) % 2
             \* m2 has 2*Prec+2 or 2*Prec+3 bits and an even exponent e2, so
             \* that its root has a bit more than the mantissa and the one
             \* lost
             m2  == x.m * Pow2(Prec + 2 + odd)
             e2  == x.e - Prec - 2 - odd
         IN Let1(ISqrtAux(m2, 0, Pow2(Prec + 1)), LAMBDA r :
              Norm(1, 2 * r + (IF r * r = m2 THEN 0 ELSE 1), (e2 \div 2) - 1)))

\* math.ceil(a) for a float a >= 0 of moderate size
FCeil(a) ==
  Let1(a, LAMBDA x :
    IF x.s = 0 THEN 0
    ELSE IF x.e >= 0 THEN x.m * Pow2(x.e)
    ELSE IF -x.e >= 2 * Prec THEN 1
    ELSE (x.m \div Pow2(-x.e)) + (IF x.m % Pow2(-x.e) = 0 THEN 0 ELSE 1))

\* y ^ (2 ^ s) < 2 for 1 <= y < 2, y given with 28 fractional bits and
\* squared in two halves of 14 bits
RECURSIVE SquaresBelowTwo(_, _)
SquaresBelowTwo(y, s) ==
  IF y >= Pow2(29) THEN FALSE
  ELSE IF s <= 0 THEN TRUE
  ELSE Let2(y \div Pow2(14), y % Pow2(14), LAMBDA hi, lo :
         SquaresBelowTwo(hi * hi + ((2 * hi * lo) \div Pow2(14)), s - 1))

\* math.log2 returns the float nearest to the logarithm: for an argument
\* 2^E * (1 + i * 2^(1 - Prec)) and an integer part n = |E| >= 1 the result
\* is an integer when log2(1 + i * 2^(1 - Prec)) is below half the spacing
\* 2^(j + 1 - Prec) of the floats next to it
Log2RoundsToInteger(i, j) ==
  j >= 2 /\ SquaresBelowTwo(Pow2(28) + i * Pow2(29 - Prec), Prec - j)

\* math.floor(-math.log2(a)) for a float a > 0
FloorNegLog2(a) ==
  Let2(a.e + Prec - 1, a.m - Pow2(Prec - 1), LAMBDA E, i :
    IF i = 0 THEN -E
    ELSE IF E = 0 THEN -1
    ELSE IF Log2RoundsToInteger(i, (IF E < 0 THEN BitLen((-E) - 1) ELSE BitLen(E)) - 1)
         THEN -E
         ELSE (-E) - 1)

\* math.ceil(math.log2(a)) for a float a > 0
CeilLog2F(a) ==
  Let2(a.e + Prec - 1, a.m - Pow2(Prec - 1), LAMBDA E, i :
    IF i = 0 THEN E
    ELSE IF E = 0 THEN 1
    ELSE IF Log2RoundsToInteger(i, (IF E > 0 THEN BitLen(E) ELSE BitLen((-E) - 1)) - 1)
         THEN E
         ELSE E + 1)

\* math.ceil(math.log2(n)) for an int n >= 1
CeilLog2(n) == IF n = 1 THEN 0 ELSE BitLen(n - 1)

(***************************************************************************)
(* common/fields.py: FieldParams and the preset fields                     *)
(***************************************************************************)
\* (1 << 64) - (1 << 32) + 1, as the float math.pow receives it
GOLDILOCKS_P == FAdd(FSub(Pow2F(64), Pow2F(32)), FOne)
GOLDILOCKS_TWO_ADICITY == 32

\* (1 << 31) - (1 << 27) + 1
BABYBEAR_P == FromInt(Pow2(30) + (Pow2(30) - Pow2(27)) + 1)
BABYBEAR_TWO_ADICITY == 27

\* math.pow(p, ext_size)
_F(p, ext_size) == FPowInt(p, ext_size)

FieldParams(name, p, ext, two_adicity) ==
  [name |-> name, p |-> p, field_extension_degree |-> ext,
   F |-> _F(p, ext), two_adicity |-> two_adicity]

GOLDILOCKS_2 == FieldParams("Goldilocks^2", GOLDILOCKS_P, 2, GOLDILOCKS_TWO_ADICITY)
GOLDILOCKS_3 == FieldParams("Goldilocks^3", GOLDILOCKS_P, 3, GOLDILOCKS_TWO_ADICITY)
BABYBEAR_4 == FieldParams("BabyBear^4", BABYBEAR_P, 4, BABYBEAR_TWO_ADICITY)
BABYBEAR_5 == FieldParams("BabyBear^5", BABYBEAR_P, 5, BABYBEAR_TWO_ADICITY)

\* math.ceil(math.log2(self.p))
base_field_element_size_bits(field) == CeilLog2F(field.p)

extension_field_element_size_bits(field) ==
  base_field_element_size_bits(field) * field.field_extension_degree

(***************************************************************************)
(* common/utils.py                                                         *)
(***************************************************************************)
\* math.log2 raises ValueError for an error <= 0
BitsDefined(error) == ~Raised(error) /\ error.s = 1

\* int(math.floor(-math.log2(error)))
get_bits_of_security_from_error(error) == FloorNegLog2(error)

\* num_leafs is an int >= 1 here (the assert is checked by the callers'
\* MerkleDefined); WHIR passes the float 2^n / 2^k, whose log2 is the same
MerkleDefined(num_leafs) == num_leafs > 0

\* faulty variant of get_size_of_merkle_path_bits: the depth of a tree whose
\* number of leaves is no power of two is rounded down
merkle_path_bits_floor_depth(num_leafs, tuple_size, element_size_bits, hash_size_bits) ==
  tuple_size * element_size_bits
  + (IF tuple_size * element_size_bits < hash_size_bits
     THEN tuple_size * element_size_bits ELSE hash_size_bits)
  + (BitLen(num_leafs) - 2) * hash_size_bits

get_size_of_merkle_path_bits(num_leafs, tuple_size, element_size_bits, hash_size_bits) ==
  LET leaf_size  == tuple_size * element_size_bits
      sibling    == IF tuple_size * element_size_bits < hash_size_bits
                    THEN tuple_size * element_size_bits ELSE hash_size_bits
      tree_depth == CeilLog2(num_leafs)
      co_path    == (tree_depth - 1) * hash_size_bits
  IN leaf_size + sibling + co_path

(***************************************************************************)
(* proxgaps: the unique decoding regime and the Johnson bound regime.      *)
(* A regime is [id, field]; the operators take it as first argument.       *)
(***************************************************************************)
UniqueDecodingRegime(field) == [id |-> "UDR", field |-> field]
JohnsonBoundRegime(field) == [id |-> "JBR", field |-> field]

identifier(regime) == regime.id

\* x, unless its evaluation raised: then F is not reached
Bind(x, F(_)) == Let1(x, LAMBDA v : IF Raised(v) THEN v ELSE F(v))

UDR_get_proximity_parameter(rate, dimension) ==
  FDiv(FSub(FOne, rate), FromInt(2))

UDR_get_max_list_size(rate, dimension) == FromInt(1)

UDR_get_error_linear(rate, dimension, field) == FDiv(dimension, field.F)

UDR_get_error_powers(rate, dimension, field, num_functions) ==
  FMul(UDR_get_error_linear(rate, dimension, field), FromInt(num_functions - 1))

JBR_get_proximity_parameter(field, rate, dimension) ==
  Let1(FSqrt(rate), LAMBDA sqrt_rate :
    Let1(IF FGt(field.F, Pow2F(150))
         THEN FDiv(sqrt_rate, FromInt(100))
         ELSE FMax(FDiv(rate, FromInt(20)), FDiv(sqrt_rate, FromInt(100))),
         LAMBDA gap : FSub(FSub(FOne, sqrt_rate), gap)))

JBR_get_max_list_size(field, rate, dimension) ==
  Let2(FSqrt(rate), JBR_get_proximity_parameter(field, rate, dimension),
       LAMBDA sqrt_rate, pp :
    Bind(FSub(FSub(FOne, sqrt_rate), pp), LAMBDA gap :
      IF ~FGt(gap, FZero) THEN AssertionError    \* assert gap > 0
      ELSE FDiv(FOne, FMul(FMul(FromInt(2), gap), sqrt_rate))))

\* the result is an int, or -1 when the assert raised
JBR_get_m(field, rate, dimension) ==
  Let2(FSqrt(rate), JBR_get_proximity_parameter(field, rate, dimension),
       LAMBDA sqrt_rate, pp :
    IF ~FLt(pp, FSub(FOne, sqrt_rate)) THEN -1   \* assert pp < 1 - sqrt_rate
    ELSE Let1(FCeil(FDiv(sqrt_rate, FSub(FSub(FOne, sqrt_rate), pp))),
              LAMBDA m : IF m > 3 THEN m ELSE 3))

JBR_get_error_linear(field, rate, dimension) ==
  Let3(FSqrt(rate), JBR_get_proximity_parameter(field, rate, dimension),
       JBR_get_m(field, rate, dimension), LAMBDA sqrt_rate, pp, m :
    IF m < 0 THEN AssertionError
    ELSE Let2(FAdd(FromInt(m), Pow2F(-1)), FDiv(dimension, rate),
              LAMBDA m_shifted, n :
      FDiv(FAdd(FDiv(FMul(FAdd(FMul(FromInt(2), FPowInt(m_shifted, 5)),
                               FMul(FMul(FromInt(3), m_shifted), FMul(pp, rate))),
                          n),
                     FMul(FMul(FromInt(3), rate), sqrt_rate)),
                FDiv(m_shifted, sqrt_rate)),
           field.F)))

JBR_get_error_powers(field, rate, dimension, num_functions) ==
  FMul(JBR_get_error_linear(field, rate, dimension), FromInt(num_functions - 1))

\* regime.get_proximity_parameter(rate, dimension), by the class of regime
get_proximity_parameter(regime, rate, dimension) ==
  IF regime.id = "UDR" THEN UDR_get_proximity_parameter(rate, dimension)
  ELSE JBR_get_proximity_parameter(regime.field, rate, dimension)

get_max_list_size(regime, rate, dimension) ==
  IF regime.id = "UDR" THEN UDR_get_max_list_size(rate, dimension)
  ELSE JBR_get_max_list_size(regime.field, rate, dimension)

get_error_linear(regime, rate, dimension) ==
  IF regime.id = "UDR" THEN UDR_get_error_linear(rate, dimension, regime.field)
  ELSE JBR_get_error_linear(regime.field, rate, dimension)

get_error_powers(regime, rate, dimension, num_functions) ==
  IF regime.id = "UDR"
  THEN UDR_get_error_powers(rate, dimension, regime.field, num_functions)
  ELSE JBR_get_error_powers(regime.field, rate, dimension, num_functions)

\* regime.get_max_delta(rate, dimension, field): the regime's proximity
\* parameter for the code
get_max_delta(regime, rate, dimension, field) ==
  get_proximity_parameter(regime, rate, dimension)

(***************************************************************************)
(* Python lists: xs[i] with 0-based and negative indexes                   *)
(***************************************************************************)
InRange(xs, i) == -Len(xs) <= i /\ i < Len(xs)
At(xs, i) == IF i >= 0 THEN xs[i + 1] ELSE xs[Len(xs) + i + 1]

RECURSIVE SumSeq(_)
SumSeq(xs) == IF xs = <<>> THEN 0 ELSE Head(xs) + SumSeq(Tail(xs))

(***************************************************************************)
(* Security levels: a dict of phase label -> bits, or the exception that   *)
(* the computation raised                                                  *)
(***************************************************************************)
ExceptionName(a) ==
  IF ~Raised(a) THEN "ValueError"          \* math.log2 of an error <= 0
  ELSE IF a.m = 1 THEN "AssertionError"
  ELSE IF a.m = 2 THEN "IndexError"
  ELSE "ZeroDivisionError"

\* phases is a sequence of <<label, error>> in the order the code computes
\* and converts them; the first error that raised, or that is not > 0,
\* aborts the call
LevelsOf(phases) ==
  Let1(phases, LAMBDA ps :
    Let1({j \in DOMAIN ps : ~BitsDefined(ps[j][2])}, LAMBDA bad :
      IF bad # {}
      THEN [st |-> ExceptionName(ps[CHOOSE j \in bad : \A j2 \in bad : j <= j2][2]),
            val |-> <<>>]
      ELSE [st |-> "ok",
            val |-> [l \in {ps[j][1] : j \in DOMAIN ps} |->
                       get_bits_of_security_from_error(
                         ps[CHOOSE j \in DOMAIN ps : ps[j][1] = l][2])]]))

\* min(list(levels.values()))
MinLevel(levels) ==
  CHOOSE v \in {levels[l] : l \in DOMAIN levels} : \A l \in DOMAIN levels : v <= levels[l]

(***************************************************************************)
(* zkvms/whir_based_vm.py: WHIRBasedCircuit.__init__                       *)
(***************************************************************************)
\* faulty variant of AssertConstraintDegree: degree 2 is let through
AssertConstraintDegreeAtLeast2(config) == config.constraint_degree >= 2

\* assert config.constraint_degree >= 3
AssertConstraintDegree(config) == config.constraint_degree >= 3

\* assert self.batch_size >= 1
AssertBatchSize(config) == config.batch_size >= 1

\* assert config.log_inv_rate > 0
AssertLogInvRate(config) == config.log_inv_rate > 0

\* assert config.folding_factor >= 1
AssertFoldingFactor(config) == config.folding_factor >= 1

\* assert config.num_iterations >= 1
AssertNumIterations(config) == config.num_iterations >= 1

\* faulty variant of AssertFinalReduction: M * k = log_degree is refused
AssertFinalReductionStrict(config) ==
  config.num_iterations * config.folding_factor < config.log_degree

\* final_reduction = M * k; assert final_reduction <= config.log_degree
AssertFinalReduction(config) ==
  config.num_iterations * config.folding_factor <= config.log_degree

\* faulty variant of AssertTwoAdicity: equality is refused
AssertTwoAdicityStrict(config) ==
  (config.log_degree + config.log_inv_rate) - config.folding_factor
    < config.field.two_adicity

\* required_two_adicity = initial_domain_log_size - folding_factor;
\* assert required_two_adicity <= field.two_adicity
AssertTwoAdicity(config) ==
  (config.log_degree + config.log_inv_rate) - config.folding_factor
    <= config.field.two_adicity

\* faulty variant of AssertLengths: no length is checked
NoLengthAsserts(config) == <<>>

\* the asserts on the lengths of the per-iteration arrays, in source order
AssertLengths(config) ==
  << <<"len(num_ood_samples)",
       Len(config.num_ood_samples) = config.num_iterations - 1>>,
     <<"len(num_queries)", Len(config.num_queries) = config.num_iterations>>,
     <<"len(grinding_bits_ood)",
       Len(config.grinding_bits_ood) = config.num_iterations - 1>>,
     <<"len(grinding_bits_queries)",
       Len(config.grinding_bits_queries) = config.num_iterations>>,
     <<"len(grinding_bits_folding)",
       Len(config.grinding_bits_folding) = config.num_iterations>> >>

\* the asserts on the grinding bits, in source order
AssertGrinding(config) ==
  << <<"grinding_bits_batching", config.grinding_bits_batching >= 0>>,
     <<"grinding_bits_queries",
       \A j \in DOMAIN config.grinding_bits_queries :
          config.grinding_bits_queries[j] >= 0>>,
     <<"grinding_bits_ood",
       \A j \in DOMAIN config.grinding_bits_ood :
          config.grinding_bits_ood[j] >= 0>>,
     <<"grinding_bits_folding[i]",
       \A i \in DOMAIN config.grinding_bits_folding :
          /\ Len(config.grinding_bits_folding[i]) = config.folding_factor
          /\ \A j \in DOMAIN config.grinding_bits_folding[i] :
                config.grinding_bits_folding[i][j] >= 0>> >>

\* the asserts of __init__, in source order: the first that fails aborts
\* the construction
WhirAsserts(config) ==
  << <<"constraint_degree", AssertConstraintDegree(config)>>,
     <<"batch_size", AssertBatchSize(config)>>,
     <<"log_inv_rate", AssertLogInvRate(config)>>,
     <<"folding_factor", AssertFoldingFactor(config)>>,
     <<"num_iterations", AssertNumIterations(config)>>,
     <<"final_reduction", AssertFinalReduction(config)>>,
     <<"two_adicity", AssertTwoAdicity(config)>> >>
  \o AssertLengths(config) \o AssertGrinding(config)

\* the label of the first failing assert, "" when every assert passes
FirstFailed(asserts) ==
  Let1(asserts, LAMBDA checks :
    Let1({j \in DOMAIN checks : ~checks[j][2]}, LAMBDA bad :
      IF bad = {} THEN ""
      ELSE checks[CHOOSE j \in bad : \A j2 \in bad : j <= j2][1]))

\* faulty variant of WhirAttributes: the inverse rate grows by the whole
\* folding factor, so that the domain keeps its size
WhirAttributesOnFixedDomain(config) ==
  [family |-> "WHIR",
   name |-> config.name,
   hash_size_bits |-> config.hash_size_bits,
   folding_factor |-> config.folding_factor,
   num_iterations |-> config.num_iterations,
   field |-> config.field,
   batch_size |-> config.batch_size,
   power_batching |-> config.power_batching,
   grinding_bits_batching |-> config.grinding_bits_batching,
   constraint_degree |-> config.constraint_degree,
   grinding_bits_folding |-> config.grinding_bits_folding,
   num_queries |-> config.num_queries,
   grinding_bits_queries |-> config.grinding_bits_queries,
   num_ood_samples |-> config.num_ood_samples,
   grinding_bits_ood |-> config.grinding_bits_ood,
   log_degree |-> config.log_degree,
   log_degrees |-> [j \in 1 .. (config.num_iterations + 1) |->
                      config.log_degree - (j - 1) * config.folding_factor],
   log_inv_rates |-> [j \in 1 .. (config.num_iterations + 1) |->
                      config.log_inv_rate + (j - 1) * config.folding_factor]]

\* the attributes of a constructed circuit
WhirAttributes(config) ==
  [family |-> "WHIR",
   name |-> config.name,
   hash_size_bits |-> config.hash_size_bits,
   folding_factor |-> config.folding_factor,
   num_iterations |-> config.num_iterations,
   field |-> config.field,
   batch_size |-> config.batch_size,
   power_batching |-> config.power_batching,
   grinding_bits_batching |-> config.grinding_bits_batching,
   constraint_degree |-> config.constraint_degree,
   grinding_bits_folding |-> config.grinding_bits_folding,
   num_queries |-> config.num_queries,
   grinding_bits_queries |-> config.grinding_bits_queries,
   num_ood_samples |-> config.num_ood_samples,
   grinding_bits_ood |-> config.grinding_bits_ood,
   log_degree |-> config.log_degree,
   log_degrees |-> [j \in 1 .. (config.num_iterations + 1) |->
                      config.log_degree - (j - 1) * config.folding_factor],
   log_inv_rates |-> [j \in 1 .. (config.num_iterations + 1) |->
                      config.log_inv_rate + (j - 1) * (config.folding_factor - 1)]]

NoCircuit == [family |-> "none"]

\* WHIRBasedCircuit(config): the circuit, or the assert that aborted
WHIRBasedCircuit(config) ==
  Let1(FirstFailed(WhirAsserts(config)), LAMBDA failed :
    IF failed = ""
    THEN [ok |-> TRUE, failed |-> "", circuit |-> WhirAttributes(config)]
    ELSE [ok |-> FALSE, failed |-> failed, circuit |-> NoCircuit])

(***************************************************************************)
(* WHIRBasedCircuit: the error terms                                       *)
(***************************************************************************)
\* the asserts of get_code_for_iteration_and_round
CodeAsserts(self, iteration, round) ==
  /\ 0 <= iteration /\ iteration < self.num_iterations
  /\ 0 <= round /\ round <= self.folding_factor
  /\ At(self.log_degrees, iteration) - round >= 0

\* faulty variant of get_code_for_iteration_and_round: the rate changes with
\* the round
code_with_rate_per_round(self, iteration, round) ==
  IF ~CodeAsserts(self, iteration, round)
  THEN [rate |-> AssertionError, dimension |-> AssertionError]
  ELSE [rate |-> Pow2F(-(At(self.log_inv_rates, iteration) + round)),
        dimension |-> FromInt(Pow2(At(self.log_degrees, iteration) - round))]

\* (rate, dimension) of the code C_{i,s}
get_code_for_iteration_and_round(self, iteration, round) ==
  IF ~CodeAsserts(self, iteration, round)
  THEN [rate |-> AssertionError, dimension |-> AssertionError]
  ELSE [rate |-> Pow2F(-At(self.log_inv_rates, iteration)),
        dimension |-> FromInt(Pow2(At(self.log_degrees, iteration) - round))]

\* the loop of get_delta_for_iteration from round on
RECURSIVE DeltaLoop(_, _, _, _, _)
DeltaLoop(self, iteration, regime, round, delta) ==
  IF round > self.folding_factor THEN delta
  ELSE Let1(get_code_for_iteration_and_round(self, iteration, round), LAMBDA code :
         IF Raised(code.rate) THEN code.rate
         ELSE Bind(get_proximity_parameter(regime, code.rate, code.dimension),
                   LAMBDA delta_round :
                DeltaLoop(self, iteration, regime, round + 1,
                          FMin(delta, delta_round))))

get_delta_for_iteration(self, iteration, regime) ==
  IF ~(0 <= iteration /\ iteration < self.num_iterations) THEN AssertionError
  ELSE DeltaLoop(self, iteration, regime, 0, FOne)

get_list_size_for_iteration_and_round(self, iteration, round, regime) ==
  IF ~(0 <= iteration /\ iteration < self.num_iterations) THEN AssertionError
  ELSE IF ~(0 <= round /\ round <= self.folding_factor) THEN AssertionError
  ELSE Let1(get_code_for_iteration_and_round(self, iteration, round), LAMBDA code :
         IF Raised(code.rate) THEN code.rate
         ELSE get_max_list_size(regime, code.rate, code.dimension))

get_batching_error(self, regime) ==
  Let1(get_code_for_iteration_and_round(self, 0, 0), LAMBDA code :
    IF Raised(code.rate) THEN code.rate
    ELSE FMul(IF self.power_batching
              THEN get_error_powers(regime, code.rate, code.dimension, self.batch_size)
              ELSE get_error_linear(regime, code.rate, code.dimension),
              Pow2F(-self.grinding_bits_batching)))

epsilon_fold(self, iteration, round, regime) ==
  IF ~(1 <= round /\ round <= self.folding_factor) THEN AssertionError
  ELSE
  Bind(get_list_size_for_iteration_and_round(self, iteration, round - 1, regime),
       LAMBDA list_size :
    Let1(get_code_for_iteration_and_round(self, iteration, round), LAMBDA code :
      IF Raised(code.rate) THEN code.rate
      ELSE Bind(get_error_powers(regime, code.rate, code.dimension, 2), LAMBDA term2 :
        IF ~InRange(self.grinding_bits_folding, iteration) THEN IndexError
        ELSE IF ~InRange(At(self.grinding_bits_folding, iteration), round - 1)
             THEN IndexError
        ELSE FMul(FAdd(FDiv(FMul(FromInt(self.constraint_degree), list_size),
                            self.field.F),
                       term2),
                  Pow2F(-At(At(self.grinding_bits_folding, iteration), round - 1))))))

epsilon_out(self, iteration, regime) ==
  IF ~(1 <= iteration /\ iteration < self.num_iterations) THEN AssertionError
  ELSE
  Bind(get_list_size_for_iteration_and_round(self, iteration, 0, regime),
       LAMBDA list_size :
    IF ~InRange(self.log_degrees, iteration) THEN IndexError
    ELSE IF ~InRange(self.num_ood_samples, iteration - 1) THEN IndexError
    ELSE IF ~InRange(self.grinding_bits_ood, iteration - 1) THEN IndexError
    ELSE FMul(FMul(FMul(list_size, list_size),
                   FPowInt(FDiv(FromInt(Pow2(At(self.log_degrees, iteration))),
                                FMul(FromInt(2), self.field.F)),
                           At(self.num_ood_samples, iteration - 1))),
              Pow2F(-At(self.grinding_bits_ood, iteration - 1))))

epsilon_shift(self, iteration, regime) ==
  IF ~(1 <= iteration /\ iteration < self.num_iterations) THEN AssertionError
  ELSE IF ~InRange(self.num_queries, iteration - 1) THEN IndexError
  ELSE
  Bind(get_delta_for_iteration(self, iteration - 1, regime), LAMBDA delta :
    Bind(get_list_size_for_iteration_and_round(self, iteration, 0, regime),
         LAMBDA list_size :
      IF ~InRange(self.grinding_bits_queries, iteration - 1) THEN IndexError
      ELSE FMul(FAdd(FPowInt(FSub(FOne, delta), At(self.num_queries, iteration - 1)),
                     FDiv(FMul(list_size,
                               FromInt(At(self.num_queries, iteration - 1) + 1)),
                          self.field.F)),
                Pow2F(-At(self.grinding_bits_queries, iteration - 1)))))

epsilon_final(self, regime) ==
  IF ~InRange(self.num_queries, -1) THEN IndexError
  ELSE IF ~InRange(self.grinding_bits_queries, -1) THEN IndexError
  ELSE
  Bind(get_delta_for_iteration(self, self.num_iterations - 1, regime), LAMBDA delta :
    IF ~(FGt(delta, FZero) /\ FLt(delta, FOne)) THEN AssertionError
    ELSE FMul(FPowInt(FSub(FOne, delta), At(self.num_queries, -1)),
              Pow2F(-At(self.grinding_bits_queries, -1))))

(***************************************************************************)
(* WHIRBasedCircuit.get_security_levels                                    *)
(***************************************************************************)
FoldLabel(i, s) == "fold(i=" \o ToString(i) \o ",s=" \o ToString(s) \o ")"
OODLabel(i) == "OOD(i=" \o ToString(i) \o ")"
ShiftLabel(i) == "Shift(i=" \o ToString(i) \o ")"

\* for round in range(1, self.folding_factor + 1): epsilon_fold
WhirFoldPhases(self, iteration, regime) ==
  [s \in 1 .. self.folding_factor |->
     <<FoldLabel(iteration, s), epsilon_fold(self, iteration, s, regime)>>]

\* for iteration in range(1, self.num_iterations): OOD, Shift, folds
RECURSIVE WhirMainLoop(_, _, _)
WhirMainLoop(self, iteration, regime) ==
  IF iteration >= self.num_iterations THEN <<>>
  ELSE << <<OODLabel(iteration), epsilon_out(self, iteration, regime)>>,
          <<ShiftLabel(iteration), epsilon_shift(self, iteration, regime)>> >>
       \o WhirFoldPhases(self, iteration, regime)
       \o WhirMainLoop(self, iteration + 1, regime)

\* faulty variant of WhirPhases: the batching entry is there for every batch
\* size
WhirPhasesAlwaysBatching(self, regime) ==
  << <<"batching", get_batching_error(self, regime)>> >>
  \o WhirFoldPhases(self, 0, regime)
  \o WhirMainLoop(self, 1, regime)
  \o << <<"fin", epsilon_final(self, regime)>> >>

WhirPhases(self, regime) ==
  (IF self.batch_size > 1
   THEN << <<"batching", get_batching_error(self, regime)>> >> ELSE <<>>)
  \o WhirFoldPhases(self, 0, regime)
  \o WhirMainLoop(self, 1, regime)
  \o << <<"fin", epsilon_final(self, regime)>> >>

\* max(list(levels.values()))
MaxLevel(levels) ==
  CHOOSE v \in {levels[l] : l \in DOMAIN levels} : \A l \in DOMAIN levels : v >= levels[l]

\* faulty variant of WhirTotal: the strongest phase instead of the weakest
WhirTotalMax(levels) == ("total" :> MaxLevel(levels)) @@ levels

\* levels["total"] = min(list(levels.values()))
WhirTotal(levels) == ("total" :> MinLevel(levels)) @@ levels

\* WHIRBasedCircuit.get_security_levels_for_regime
WHIR_get_security_levels_for_regime(self, regime) ==
  Let1(LevelsOf(WhirPhases(self, regime)), LAMBDA levels :
    IF levels.st # "ok" THEN levels
    ELSE [st |-> "ok", val |-> WhirTotal(levels.val)])

\* WHIRBasedCircuit.get_security_levels
WHIR_get_security_levels(self) ==
  Let1(WHIR_get_security_levels_for_regime(self, UniqueDecodingRegime(self.field)),
       LAMBDA udr :
    IF udr.st # "ok" THEN udr
    ELSE Let1(WHIR_get_security_levels_for_regime(self, JohnsonBoundRegime(self.field)),
              LAMBDA jbr :
           IF jbr.st # "ok" THEN jbr
           ELSE [st |-> "ok", val |-> ("UDR" :> udr.val) @@ ("JBR" :> jbr.val)]))

(***************************************************************************)
(* WHIRBasedCircuit.get_proof_size_bits                                    *)
(***************************************************************************)
\* the roots, OOD samples and sumchecks of iterations 1 .. M-1
WhirMainLoopSize(self, ext_field_bits) ==
  SumSeq([j \in 1 .. (self.num_iterations - 1) |->
            self.hash_size_bits
            + At(self.num_ood_samples, j - 1) * ext_field_bits
            + self.folding_factor * (self.constraint_degree + 1) * ext_field_bits])

\* faulty variant of WhirQuerySize: the leaves of iteration 0 are counted
\* over the extension field as well
WhirQuerySizeOverExtension(self, i, base_field_bits, ext_field_bits) ==
  At(self.num_queries, i)
  * get_size_of_merkle_path_bits(
      Pow2((At(self.log_degrees, i) + At(self.log_inv_rates, i)) - self.folding_factor),
      Pow2(self.folding_factor), ext_field_bits, self.hash_size_bits)

\* the Merkle paths of iteration i; num_leafs = domain_size / block_size is
\* 2^(m_i + log_inv_rate_i - k)
WhirQuerySize(self, i, base_field_bits, ext_field_bits) ==
  At(self.num_queries, i)
  * get_size_of_merkle_path_bits(
      Pow2((At(self.log_degrees, i) + At(self.log_inv_rates, i)) - self.folding_factor),
      Pow2(self.folding_factor),
      IF i = 0 THEN base_field_bits ELSE ext_field_bits,
      self.hash_size_bits)

WHIR_get_proof_size_bits(self) ==
  Let2(base_field_element_size_bits(self.field),
       extension_field_element_size_bits(self.field),
       LAMBDA base_field_bits, ext_field_bits :
    IF Len(self.num_queries) # self.num_iterations
    THEN [st |-> "AssertionError", val |-> 0]
    ELSE [st |-> "ok",
          val |-> self.hash_size_bits
                  + self.folding_factor * (self.constraint_degree + 1) * ext_field_bits
                  + WhirMainLoopSize(self, ext_field_bits)
                  + Pow2(At(self.log_degrees, -1)) * ext_field_bits
                  + SumSeq([j \in 1 .. self.num_iterations |->
                              WhirQuerySize(self, j - 1, base_field_bits,
                                            ext_field_bits)])])

(***************************************************************************)
(* common/fri.py                                                           *)
(***************************************************************************)
\* n divided by each factor in turn (floor division), -1 at a factor 0
RECURSIVE Divided(_, _)
Divided(n, factors) ==
  IF factors = <<>> THEN n
  ELSE IF Head(factors) = 0 THEN -1
  ELSE Divided(n \div Head(factors), Tail(factors))

\* faulty variant of FoldingLoop: the rounds are not counted
FoldingLoopUncounted(n, rounds, folding_factors, i) ==
  [n |-> Divided(n, folding_factors), rounds |-> rounds]

\* the loop of get_num_FRI_folding_rounds from index i on: n //= factor and
\* rounds += 1 for every factor (n = -1: a factor 0, ZeroDivisionError)
RECURSIVE FoldingLoop(_, _, _, _)
FoldingLoop(n, rounds, folding_factors, i) ==
  IF i >= Len(folding_factors) THEN [n |-> n, rounds |-> rounds]
  ELSE IF At(folding_factors, i) = 0 THEN [n |-> -1, rounds |-> rounds]
  ELSE Let2(n \div At(folding_factors, i), rounds + 1, LAMBDA n1, rounds1 :
         FoldingLoop(n1, rounds1, folding_factors, i + 1))

\* [st, rounds, n]: rounds is returned when the final assert passes
get_num_FRI_folding_rounds(witness_size, field_extension_degree, folding_factors, fri_early_stop_degree) ==
  Let1(FoldingLoop(witness_size, 0, folding_factors, 0), LAMBDA r :
    [st |-> IF r.n < 0 THEN "ZeroDivisionError"
            ELSE IF r.n # fri_early_stop_degree THEN "AssertionError"
            ELSE "ok",
     rounds |-> r.rounds,
     n |-> r.n])

\* the folding rounds of get_FRI_proof_size_bits from index i on: the size
\* they add, -1 when a Merkle path is asked for a tree without leaves
RECURSIVE FriRoundsSize(_, _, _, _, _, _)
FriRoundsSize(n, i, folding_factors, hash_size_bits, field_size_bits, num_queries) ==
  IF i >= Len(folding_factors) THEN [size |-> 0, n |-> n]
  ELSE Let1(n \div At(folding_factors, i), LAMBDA num_leafs :
         IF ~MerkleDefined(num_leafs) THEN [size |-> -1, n |-> n]
         ELSE Let1(FriRoundsSize(num_leafs, i + 1, folding_factors, hash_size_bits,
                                 field_size_bits, num_queries),
                   LAMBDA rest :
                IF rest.size < 0 THEN rest
                ELSE [size |-> hash_size_bits
                               + num_queries
                                 * get_size_of_merkle_path_bits(
                                     num_leafs, At(folding_factors, i),
                                     field_size_bits, hash_size_bits)
                               + rest.size,
                      n |-> rest.n]))

\* size_bits is an int until the final round adds rate * n * field_size_bits
\* faulty variant of get_FRI_proof_size_bits: the final term is taken on the
\* initial domain size
FRI_proof_size_final_on_domain(hash_size_bits, field_size_bits, batch_size, num_queries, domain_size, folding_factors, rate) ==
  IF ~MerkleDefined(domain_size) THEN [st |-> "AssertionError", val |-> FZero]
  ELSE Let1(FriRoundsSize(domain_size, 0, folding_factors, hash_size_bits,
                          field_size_bits, num_queries),
            LAMBDA rounds :
         IF rounds.size < 0 THEN [st |-> "AssertionError", val |-> FZero]
         ELSE [st |-> "ok",
               val |-> FAdd(FromInt(hash_size_bits
                                    + num_queries
                                      * get_size_of_merkle_path_bits(
                                          domain_size, batch_size,
                                          field_size_bits, hash_size_bits)
                                    + rounds.size),
                            FMul(FMul(rate, FromInt(domain_size)),
                                 FromInt(field_size_bits)))])

get_FRI_proof_size_bits(hash_size_bits, field_size_bits, batch_size, num_queries, domain_size, folding_factors, rate) ==
  IF ~MerkleDefined(domain_size) THEN [st |-> "AssertionError", val |-> FZero]
  ELSE Let1(FriRoundsSize(domain_size, 0, folding_factors, hash_size_bits,
                          field_size_bits, num_queries),
            LAMBDA rounds :
         IF rounds.size < 0 THEN [st |-> "AssertionError", val |-> FZero]
         ELSE [st |-> "ok",
               val |-> FAdd(FromInt(hash_size_bits
                                    + num_queries
                                      * get_size_of_merkle_path_bits(
                                          domain_size, batch_size,
                                          field_size_bits, hash_size_bits)
                                    + rounds.size),
                            FMul(FMul(rate, FromInt(rounds.n)),
                                 FromInt(field_size_bits)))])

(***************************************************************************)
(* zkvms/best_attack.py                                                    *)
(***************************************************************************)
\* faulty variant of best_attack_error: the grinding of the query phase is
\* left out
best_attack_error_without_grinding(F, rho, num_queries, grinding_query_phase) ==
  FAdd(FDiv(FOne, F), FPowInt(rho, num_queries))

\* the error of best_attack_security
best_attack_error(F, rho, num_queries, grinding_query_phase) ==
  FAdd(FDiv(FOne, F),
       FMul(FPowInt(rho, num_queries), Pow2F(-grinding_query_phase)))

\* get_best_attack_security(field_size, rho, num_queries, grinding_query_phase)
get_best_attack_security(field_size, rho, num_queries, grinding_query_phase) ==
  LevelsOf(<< <<"best attack",
                best_attack_error(field_size, rho, num_queries,
                                  grinding_query_phase)>> >>)

(***************************************************************************)
(* zkvms/fri_based_vm.py: FRIBasedCircuit.__init__                         *)
(***************************************************************************)
\* int(round(math.log2(x))) for a float x > 0
RoundLog2(x) ==
  IF x.m * x.m < Pow2(2 * Prec - 1) THEN x.e + Prec - 1 ELSE x.e + Prec

\* int(x) for a float x >= 0 of moderate size
IntOf(x) ==
  IF x.s = 0 THEN 0
  ELSE IF x.e >= 0 THEN x.m * Pow2(x.e)
  ELSE IF -x.e >= Prec THEN 0
  ELSE x.m \div Pow2(-x.e)

\* field_element_size_bits(field): the size of an element of the field FRI
\* works over
field_element_size_bits(field) == extension_field_element_size_bits(field)

\* faulty variant of AssertNumColumns: as many columns as batched polynomials
\* are rejected
AssertNumColumnsStrict(config) == config.num_columns < config.batch_size

\* assert self.num_columns <= self.batch_size
AssertNumColumns(config) == config.num_columns <= config.batch_size

\* the attributes of a constructed circuit
FriAttributes(config, D, rounds) ==
  [family |-> "FRI",
   name |-> config.name,
   hash_size_bits |-> config.hash_size_bits,
   rho |-> config.rho,
   trace_length |-> config.trace_length,
   num_columns |-> config.num_columns,
   batch_size |-> config.batch_size,
   power_batching |-> config.power_batching,
   num_queries |-> config.num_queries,
   max_combo |-> config.max_combo,
   FRI_folding_factors |-> config.FRI_folding_factors,
   FRI_early_stop_degree |-> config.FRI_early_stop_degree,
   grinding_query_phase |-> config.grinding_query_phase,
   AIR_max_degree |-> config.AIR_max_degree,
   k |-> -RoundLog2(config.rho),
   h |-> RoundLog2(FromInt(config.trace_length)),
   D |-> D,
   field_extension_degree |-> config.field.field_extension_degree,
   field |-> config.field,
   field_size |-> config.field.F,
   FRI_rounds_n |-> rounds]

\* FRIBasedCircuit(config): the circuit, or what aborted the construction
FRIBasedCircuit(config) ==
  IF ~AssertNumColumns(config)
  THEN [ok |-> FALSE, failed |-> "num_columns", circuit |-> NoCircuit]
  ELSE Let1(FDiv(FromInt(config.trace_length), config.rho), LAMBDA D :
         Let1(get_num_FRI_folding_rounds(IntOf(D), config.field.field_extension_degree,
                                         config.FRI_folding_factors,
                                         config.FRI_early_stop_degree),
              LAMBDA r :
           IF r.st = "ok"
           THEN [ok |-> TRUE, failed |-> "",
                 circuit |-> FriAttributes(config, D, r.rounds)]
           ELSE [ok |-> FALSE,
                 failed |-> IF r.st = "AssertionError" THEN "fri_early_stop_degree"
                            ELSE r.st,
                 circuit |-> NoCircuit]))

(***************************************************************************)
(* FRIBasedCircuit.get_security_levels                                     *)
(***************************************************************************)
FRI_get_batching_error(self, regime) ==
  IF self.power_batching
  THEN get_error_powers(regime, self.rho, FromInt(self.trace_length), self.batch_size)
  ELSE get_error_linear(regime, self.rho, FromInt(self.trace_length))

FRI_get_commit_phase_error(self, round, regime) ==
  IF ~InRange(self.FRI_folding_factors, round) THEN IndexError
  ELSE get_error_powers(
         regime, self.rho,
         FDiv(FromInt(self.trace_length),
              FromInt(At(self.FRI_folding_factors, round) ^ (round + 1))),
         self.batch_size)

\* faulty variant of FRI_get_query_phase_error: the queries enter the error
\* with the wrong sign of the exponent
FRI_query_phase_error_growing(self, regime) ==
  Bind(get_max_delta(regime, self.rho, FromInt(self.trace_length), self.field),
       LAMBDA delta :
    FMul(FPowInt(FSub(FOne, delta), -self.num_queries),
         Pow2F(-self.grinding_query_phase)))

FRI_get_query_phase_error(self, regime) ==
  Bind(get_max_delta(regime, self.rho, FromInt(self.trace_length), self.field),
       LAMBDA delta :
    FMul(FPowInt(FSub(FOne, delta), self.num_queries),
         Pow2F(-self.grinding_query_phase)))

CommitLabel(i) == "commit round " \o ToString(i + 1)

\* FRIBasedCircuit.get_security_levels_for_regime
FRI_get_security_levels_for_regime(self, regime) ==
  LevelsOf(<< <<"batching", FRI_get_batching_error(self, regime)>> >>
           \o [j \in 1 .. self.FRI_rounds_n |->
                 <<CommitLabel(j - 1), FRI_get_commit_phase_error(self, j - 1, regime)>>]
           \o << <<"query phase", FRI_get_query_phase_error(self, regime)>> >>)

e_ALI(L_plus, params) ==
  FDiv(FMul(L_plus, FromInt(params.num_columns)), params.field_size)

e_DEEP(L_plus, params) ==
  FDiv(FMul(L_plus,
            FromInt(params.AIR_max_degree
                      * (params.trace_length + params.max_combo - 1)
                    + (params.trace_length - 1))),
       FSub(FSub(params.field_size, FromInt(params.trace_length)), params.D))

\* the levels "ALI" and "DEEP"; both errors are computed before either is
\* converted
get_DEEP_ALI_errors(L_plus, params) ==
  Let2(e_ALI(L_plus, params), e_DEEP(L_plus, params), LAMBDA ali, deep :
    IF Raised(ali) \/ Raised(deep)
    THEN [st |-> ExceptionName(FirstRaised(ali, deep)), val |-> <<>>]
    ELSE LevelsOf(<< <<"ALI", ali>>, <<"DEEP", deep>> >>))

\* faulty variant of FriTotal: the minimum leaves out ALI and DEEP
FriTotalWithoutProofSystem(fri_levels, proof_system_levels) ==
  ("total" :> MinLevel(fri_levels)) @@ proof_system_levels @@ fri_levels

\* total = min(list(fri_levels.values()) + list(proof_system_levels.values()));
\* fri_levels | proof_system_levels | {"total": total}
FriTotal(fri_levels, proof_system_levels) ==
  ("total" :> MinLevel(fri_levels @@ proof_system_levels))
  @@ proof_system_levels @@ fri_levels

\* one turn of the loop over the regimes in get_security_levels
FriRegimeLevels(self, regime) ==
  Let1(FRI_get_security_levels_for_regime(self, regime), LAMBDA fri_levels :
    IF fri_levels.st # "ok" THEN fri_levels
    ELSE
    Let1(get_max_delta(regime, self.rho, FromInt(self.trace_length), self.field),
         LAMBDA delta :
      Let1(FirstRaised(delta,
                       get_max_list_size(regime, self.rho, FromInt(self.trace_length))),
           LAMBDA list_size :
        IF Raised(list_size) THEN [st |-> ExceptionName(list_size), val |-> <<>>]
        ELSE Let1(get_DEEP_ALI_errors(list_size, self), LAMBDA proof_system_levels :
               IF proof_system_levels.st # "ok" THEN proof_system_levels
               ELSE [st |-> "ok",
                     val |-> FriTotal(fri_levels.val, proof_system_levels.val)]))))

\* faulty variant of FRI_get_security_levels: no "best attack" entry
FRI_levels_without_best_attack(self) ==
  Let2(FriRegimeLevels(self, UniqueDecodingRegime(self.field)),
       FriRegimeLevels(self, JohnsonBoundRegime(self.field)), LAMBDA udr, jbr :
    IF udr.st # "ok" THEN udr
    ELSE IF jbr.st # "ok" THEN jbr
    ELSE [st |-> "ok", val |-> ("UDR" :> udr.val) @@ ("JBR" :> jbr.val)])

\* FRIBasedCircuit.get_security_levels
FRI_get_security_levels(self) ==
  Let1(FriRegimeLevels(self, UniqueDecodingRegime(self.field)), LAMBDA udr :
    IF udr.st # "ok" THEN udr
    ELSE
    Let1(FriRegimeLevels(self, JohnsonBoundRegime(self.field)), LAMBDA jbr :
      IF jbr.st # "ok" THEN jbr
      ELSE
      Let1(get_best_attack_security(self.field_size, self.rho, self.num_queries,
                                    self.grinding_query_phase),
           LAMBDA best :
        IF best.st # "ok" THEN best
        ELSE [st |-> "ok",
              val |-> ("UDR" :> udr.val) @@ ("JBR" :> jbr.val)
                      @@ ("best attack" :> best.val["best attack"])])))

\* FRIBasedCircuit.get_proof_size_bits
FRI_get_proof_size_bits(self) ==
  get_FRI_proof_size_bits(self.hash_size_bits, field_element_size_bits(self.field),
                          self.batch_size, self.num_queries, IntOf(self.D),
                          self.FRI_folding_factors, self.rho)

(***************************************************************************)
(* The configurations a caller may hand to WHIRBasedCircuit                *)
(***************************************************************************)
\* [x] * n
Repeat(x, n) == [j \in 1 .. (IF n > 0 THEN n ELSE 0) |-> x]

\* xs + [x]
Append1(xs, x) == xs \o <<x>>

\* xs[:-1]
DropLast(xs) == IF xs = <<>> THEN <<>> ELSE SubSeq(xs, 1, Len(xs) - 1)

\* xs with its last element replaced by x
SetLast(xs, x) == IF xs = <<>> THEN <<>> ELSE [xs EXCEPT ![Len(xs)] = x]

WhirFields == {GOLDILOCKS_2, BABYBEAR_5}

\* log_degree just below and at MaxIter * MaxFold, and one past the
\* two-adicity of BabyBear
WhirLogDegrees == {MaxIter * MaxFold - 1, MaxIter * MaxFold, BABYBEAR_TWO_ADICITY + 1}

WhirScalars ==
  [constraint_degree : {2, 3},
   batch_size : {0, 1, 2},
   log_inv_rate : {0, 1, 2},
   folding_factor : 0 .. MaxFold,
   num_iterations : 0 .. MaxIter,
   log_degree : WhirLogDegrees,
   field : WhirFields,
   power_batching : BOOLEAN]

\* the values the arrays are filled with: queries of the last iteration,
\* OOD samples, grinding bits
DefaultFill == [qlast |-> 3, w |-> 1, g |-> 0]
WhirFills ==
  {DefaultFill, [DefaultFill EXCEPT !.qlast = 5], [DefaultFill EXCEPT !.w = 9],
   [DefaultFill EXCEPT !.g = 2]}

\* ways in which the arrays of a configuration deviate from the lengths and
\* signs that the iteration structure dictates
WhirDeviations ==
  {"none",
   "short num_ood_samples", "long num_ood_samples",
   "short num_queries", "long num_queries",
   "short grinding_bits_ood", "long grinding_bits_ood",
   "short grinding_bits_queries", "long grinding_bits_queries",
   "short grinding_bits_folding", "long grinding_bits_folding",
   "short grinding_bits_folding[i]", "long grinding_bits_folding[i]",
   "negative grinding_bits_batching", "negative grinding_bits_queries",
   "negative grinding_bits_ood", "negative grinding_bits_folding"}

Deviate(xs, dev, what, x) ==
  IF dev = "short " \o what THEN DropLast(xs)
  ELSE IF dev = "long " \o what THEN Append1(xs, x)
  ELSE IF dev = "negative " \o what THEN SetLast(xs, -1)
  ELSE xs

\* the grinding bits of the folding rounds of one iteration
InnerFolding(sc, fill, dev) ==
  Deviate(Repeat(fill.g, sc.folding_factor), dev, "grinding_bits_folding[i]", fill.g)

WhirConfig(sc, fill, dev) ==
  [name |-> "whir",
   hash_size_bits |-> 256,
   log_inv_rate |-> sc.log_inv_rate,
   num_iterations |-> sc.num_iterations,
   folding_factor |-> sc.folding_factor,
   field |-> sc.field,
   log_degree |-> sc.log_degree,
   batch_size |-> sc.batch_size,
   power_batching |-> sc.power_batching,
   grinding_bits_batching |->
     IF dev = "negative grinding_bits_batching" THEN -1 ELSE fill.g,
   constraint_degree |-> sc.constraint_degree,
   grinding_bits_folding |->
     IF dev = "negative grinding_bits_folding"
     THEN SetLast(Repeat(InnerFolding(sc, fill, dev), sc.num_iterations),
                  SetLast(InnerFolding(sc, fill, dev), -1))
     ELSE Deviate(Repeat(InnerFolding(sc, fill, dev), sc.num_iterations), dev,
                  "grinding_bits_folding", InnerFolding(sc, fill, dev)),
   num_queries |->
     Deviate(SetLast(Repeat(3, sc.num_iterations), fill.qlast), dev, "num_queries", 3),
   grinding_bits_queries |->
     Deviate(Repeat(fill.g, sc.num_iterations), dev, "grinding_bits_queries", fill.g),
   num_ood_samples |->
     Deviate(Repeat(fill.w, sc.num_iterations - 1), dev, "num_ood_samples", fill.w),
   grinding_bits_ood |->
     Deviate(Repeat(fill.g, sc.num_iterations - 1), dev, "grinding_bits_ood", fill.g)]

\* scalars that are not degenerate on their own
Plausible(sc) ==
  /\ sc.constraint_degree >= 3 /\ sc.batch_size >= 1 /\ sc.log_inv_rate >= 1
  /\ sc.folding_factor >= 1 /\ sc.num_iterations >= 1

\* num_iterations = M, folding_factor = 5, log_degree = 10, the rest valid
ExampleScalars(M) ==
  [constraint_degree |-> 3, batch_size |-> 2, log_inv_rate |-> 1,
   folding_factor |-> 5, num_iterations |-> M, log_degree |-> 10,
   field |-> GOLDILOCKS_2, power_batching |-> TRUE]

RejectedExample == WhirConfig(ExampleScalars(3), DefaultFill, "none")
AcceptedExample == WhirConfig(ExampleScalars(2), DefaultFill, "none")

\* every scalar combination with regular arrays; the plausible ones also
\* with one deviating array or with other fill values; the two examples
WhirConfigs ==
  {WhirConfig(sc, DefaultFill, "none") : sc \in WhirScalars}
  \cup {WhirConfig(sc, DefaultFill, dev) :
          sc \in {x \in WhirScalars : Plausible(x)}, dev \in WhirDeviations}
  \cup {WhirConfig(sc, fill, "none") :
          sc \in {x \in WhirScalars : Plausible(x)}, fill \in WhirFills}
  \cup {RejectedExample, AcceptedExample}

(***************************************************************************)
(* The configurations a caller may hand to FRIBasedCircuit                 *)
(***************************************************************************)
FriFields == {BABYBEAR_4, GOLDILOCKS_3}

\* lists of at most MaxFriRounds folding factors, and one with a factor 0
FriFactorLists ==
  UNION {[1 .. n -> {2, 4}] : n \in 0 .. MaxFriRounds} \cup {<<2, 0>>}

FriScalars ==
  [log_inv_rho : {1, 2},
   trace_length : {16, 20},
   field : FriFields,
   num_columns : {1, 2},
   batch_size : {1, 2},
   power_batching : BOOLEAN,
   num_queries : {0, 2, 400},
   FRI_folding_factors : FriFactorLists,
   FRI_early_stop_degree : {2, 4, 8, 10, 32}]

FriConfig(sc) ==
  [name |-> "fri",
   hash_size_bits |-> 256,
   rho |-> Pow2F(-sc.log_inv_rho),
   trace_length |-> sc.trace_length,
   field |-> sc.field,
   num_columns |-> sc.num_columns,
   batch_size |-> sc.batch_size,
   power_batching |-> sc.power_batching,
   num_queries |-> sc.num_queries,
   AIR_max_degree |-> 2,
   FRI_folding_factors |-> sc.FRI_folding_factors,
   FRI_early_stop_degree |-> sc.FRI_early_stop_degree,
   max_combo |-> 2,
   grinding_query_phase |-> 1]

\* trace_length = 2^22, rho = 1/2, folding factors [16,16,16,8,8], early
\* stop degree 32
FoldingExample ==
  [FriConfig([log_inv_rho |-> 1, trace_length |-> Pow2(22), field |-> GOLDILOCKS_3,
              num_columns |-> 2, batch_size |-> 2, power_batching |-> TRUE,
              num_queries |-> 2, FRI_folding_factors |-> <<16, 16, 16, 8, 8>>,
              FRI_early_stop_degree |-> 32])
   EXCEPT !.name = "folding example"]

\* trace_length = 2, rho = 1/8 over BabyBear^4: the domain of size 16 is folded
\* by [4, 4] down to the early stop degree 1
FractionalExample ==
  [FriConfig([log_inv_rho |-> 3, trace_length |-> 2, field |-> BABYBEAR_4,
              num_columns |-> 1, batch_size |-> 2, power_batching |-> TRUE,
              num_queries |-> 0, FRI_folding_factors |-> <<4, 4>>,
              FRI_early_stop_degree |-> 1])
   EXCEPT !.name = "fractional example"]

\* Risc0Preset._main_circuit: rho = 1/4, trace_length = 2^21, BabyBear^4,
\* 50 queries, no grinding; D = 2^23 is folded by 16 while above 2^7
Risc0Example ==
  [FriConfig([log_inv_rho |-> 2, trace_length |-> Pow2(21), field |-> BABYBEAR_4,
              num_columns |-> 16 + 223 + 40, batch_size |-> 16 + 223 + 40 + 4,
              power_batching |-> TRUE, num_queries |-> 50,
              FRI_folding_factors |-> <<16, 16, 16, 16>>,
              FRI_early_stop_degree |-> Pow2(7)])
   EXCEPT !.name = "main", !.max_combo = 9, !.AIR_max_degree = 4,
          !.grinding_query_phase = 0]

FriConfigs ==
  {FriConfig(sc) : sc \in FriScalars}
    \cup {FoldingExample, FractionalExample, Risc0Example}

(***************************************************************************)
(* The state: the configuration handed in, the circuit constructed from    *)
(* it, and the results of the queries made so far                          *)
(***************************************************************************)
\* family: the class the caller constructs ("WHIR", "FRI"); cfg: the
\* configuration; status: "idle", "constructed" or "failed"; failed: what
\* aborted the construction; circuit: the constructed object; security and
\* proof_size: the result of the last get_security_levels() and
\* get_proof_size_bits()
VARIABLES family, cfg, status, failed, circuit, security, proof_size

vars == <<family, cfg, status, failed, circuit, security, proof_size>>

NoConfig == [family |-> "none"]
NoResult == [st |-> "none", val |-> <<>>]

Init ==
  /\ family = "none"
  /\ cfg = NoConfig
  /\ status = "idle"
  /\ failed = ""
  /\ circuit = NoCircuit
  /\ security = NoResult
  /\ proof_size = NoResult

\* the construction returned r for config
Constructed(class, config, r) ==
  /\ family' = class
  /\ cfg' = config
  /\ status' = IF r.ok THEN "constructed" ELSE "failed"
  /\ failed' = r.failed
  /\ circuit' = r.circuit
  /\ UNCHANGED <<security, proof_size>>

\* circuit = WHIRBasedCircuit(config)
ConstructWHIR ==
  /\ status = "idle"
  /\ \E config \in WhirConfigs : Constructed("WHIR", config, WHIRBasedCircuit(config))

\* circuit = FRIBasedCircuit(config)
ConstructFRI ==
  /\ status = "idle"
  /\ \E config \in FriConfigs : Constructed("FRI", config, FRIBasedCircuit(config))

\* faulty variant of GetSecurityLevels: the call leaves a trace in the
\* circuit
GetSecurityLevelsCounting ==
  /\ status = "constructed"
  /\ security' = IF circuit.family = "WHIR" THEN WHIR_get_security_levels(circuit)
                 ELSE FRI_get_security_levels(circuit)
  /\ circuit' = [circuit EXCEPT !.batch_size = @ + 1]
  /\ UNCHANGED <<family, cfg, status, failed, proof_size>>

\* circuit.get_security_levels()
GetSecurityLevels ==
  /\ status = "constructed"
  /\ security' = IF circuit.family = "WHIR" THEN WHIR_get_security_levels(circuit)
                 ELSE FRI_get_security_levels(circuit)
  /\ UNCHANGED <<family, cfg, status, failed, circuit, proof_size>>

ProofSizeRepresentable(self) ==
  IF self.family = "FRI" THEN TRUE
  ELSE At(self.log_degrees, 0) + At(self.log_inv_rates, 0) <= MaxLogDomain

\* circuit.get_proof_size_bits()
GetProofSizeBits ==
  /\ status = "constructed"
  /\ ProofSizeRepresentable(circuit)
  /\ proof_size' = IF circuit.family = "WHIR" THEN WHIR_get_proof_size_bits(circuit)
                   ELSE FRI_get_proof_size_bits(circuit)
  /\ UNCHANGED <<family, cfg, status, failed, circuit, security>>

\* self.name
get_name(self) == self.name

\* the attributes get_parameter_summary formats, label by label
get_parameter_summary(self) ==
  [label \in DOMAIN self \ {"family"} |-> self[label]]

\* circuit.get_name(): the name is returned, nothing is assigned
GetName ==
  /\ status = "constructed"
  /\ get_name(circuit) = cfg.name
  /\ UNCHANGED vars

\* circuit.get_parameter_summary(): the text is returned, nothing is assigned
GetParameterSummary ==
  /\ status = "constructed"
  /\ get_parameter_summary(circuit).name = cfg.name
  /\ UNCHANGED vars

Next ==
  \/ ConstructWHIR
  \/ ConstructFRI
  \/ GetSecurityLevels
  \/ GetProofSizeBits
  \/ GetName
  \/ GetParameterSummary

Spec == Init /\ [][Next]_vars

(***************************************************************************)
(* Properties                                                              *)
(***************************************************************************)
Regimes == {"UDR", "JBR"}

\* levels["total"] is the least of the other entries of levels
IsMinOfOthers(levels) ==
  /\ \A l \in DOMAIN levels \ {"total"} : levels["total"] <= levels[l]
  /\ \E l \in DOMAIN levels \ {"total"} : levels["total"] = levels[l]

\* some entry of levels is above levels["total"]
SomeAboveTotal(levels) ==
  \E l \in DOMAIN levels \ {"total"} : levels[l] > levels["total"]

FriPhaseLabels(rounds) ==
  {"batching", "query phase", "ALI", "DEEP"}
  \cup {"commit round " \o ToString(i) : i \in 1 .. rounds}

WhirQueriesSucceed ==
  (family = "WHIR" /\ status = "constructed") =>
    security.st \in {"none", "ok"} /\ proof_size.st \in {"none", "ok"}

\* C5: every get_security_levels() and get_proof_size_bits() of a
\* constructed FRI circuit (batch_size >= 1, num_queries >= 0,
\* FRI_early_stop_degree >= 1) returns a result
FriQueriesSucceed ==
  (/\ family = "FRI" /\ status = "constructed"
   /\ cfg.batch_size >= 1 /\ cfg.num_queries >= 0 /\ cfg.FRI_early_stop_degree >= 1) =>
    security.st \in {"none", "ok"} /\ proof_size.st \in {"none", "ok"}

\* what WHIRBasedCircuit demands of a configuration c
ScalarsValid(c) ==
  /\ c.constraint_degree >= 3 /\ c.batch_size >= 1 /\ c.log_inv_rate > 0
  /\ c.folding_factor >= 1 /\ c.num_iterations >= 1

ReductionFits(c) == c.num_iterations * c.folding_factor <= c.log_degree

TwoAdicityFits(c) ==
  (c.log_degree + c.log_inv_rate) - c.folding_factor <= c.field.two_adicity

NonNegative(xs) == \A j \in DOMAIN xs : xs[j] >= 0

ArraysValid(c) ==
  /\ Len(c.num_ood_samples) = c.num_iterations - 1
  /\ Len(c.grinding_bits_ood) = c.num_iterations - 1
  /\ Len(c.num_queries) = c.num_iterations
  /\ Len(c.grinding_bits_queries) = c.num_iterations
  /\ Len(c.grinding_bits_folding) = c.num_iterations
  /\ \A i \in DOMAIN c.grinding_bits_folding :
        /\ Len(c.grinding_bits_folding[i]) = c.folding_factor
        /\ NonNegative(c.grinding_bits_folding[i])
  /\ c.grinding_bits_batching >= 0
  /\ NonNegative(c.grinding_bits_queries)
  /\ NonNegative(c.grinding_bits_ood)

\* a WHIRBasedCircuit construction was attempted
WhirAttempted == family = "WHIR" /\ status \in {"constructed", "failed"}

\* C6: construction fails whenever num_iterations * folding_factor >
\* log_degree, and that check refuses nothing else: with the other
\* parameters valid, (3, 5, 10) is rejected and (2, 5, 10) is accepted
FinalReductionChecked ==
  WhirAttempted =>
    /\ ~ReductionFits(cfg) => status = "failed"
    /\ failed = "final_reduction" => ~ReductionFits(cfg)
    /\ (ScalarsValid(cfg) /\ TwoAdicityFits(cfg) /\ ArraysValid(cfg)) =>
          (status = "constructed" <=> ReductionFits(cfg))

\* (num_iterations, folding_factor, log_degree) = (3, 5, 10), the rest
\* valid, was rejected by the check of the final reduction
FinalReductionCheckedWitness ==
  /\ WhirAttempted
  /\ cfg.num_iterations = 3 /\ cfg.folding_factor = 5 /\ cfg.log_degree = 10
  /\ ScalarsValid(cfg) /\ TwoAdicityFits(cfg) /\ ArraysValid(cfg)
  /\ status = "failed" /\ failed = "final_reduction" /\ circuit = NoCircuit

\* C7: construction succeeds only with arrays of the dictated lengths and
\* grinding bits >= 0; a violation of one of these, the other parameters
\* being valid, makes the construction fail and no circuit is returned
ArraysChecked ==
  WhirAttempted =>
    /\ status = "constructed" => ArraysValid(cfg)
    /\ ~ArraysValid(cfg) => status = "failed" /\ circuit = NoCircuit
    /\ failed \in {"len(num_ood_samples)", "len(grinding_bits_ood)"} =>
          \/ Len(cfg.num_ood_samples) # cfg.num_iterations - 1
          \/ Len(cfg.grinding_bits_ood) # cfg.num_iterations - 1

\* a configuration whose only defect is the length of num_ood_samples was
\* rejected for it
ArraysCheckedWitness ==
  /\ WhirAttempted
  /\ ScalarsValid(cfg) /\ ReductionFits(cfg) /\ TwoAdicityFits(cfg)
  /\ Len(cfg.num_ood_samples) # cfg.num_iterations - 1
  /\ ArraysValid([cfg EXCEPT !.num_ood_samples = cfg.grinding_bits_ood])
  /\ status = "failed" /\ failed = "len(num_ood_samples)" /\ circuit = NoCircuit

\* C8: construction succeeds only if (log_degree + log_inv_rate) -
\* folding_factor <= field.two_adicity; a configuration beyond that is
\* rejected though every other check passes, one at equality is not
TwoAdicityChecked ==
  WhirAttempted =>
    /\ status = "constructed" => TwoAdicityFits(cfg)
    /\ failed = "two_adicity" => ~TwoAdicityFits(cfg)
    /\ (ScalarsValid(cfg) /\ ReductionFits(cfg) /\ ArraysValid(cfg)) =>
          (status = "constructed" <=> TwoAdicityFits(cfg))

\* a configuration one past the two-adicity of its field, valid otherwise,
\* was rejected by the two-adicity check
TwoAdicityCheckedWitness ==
  /\ WhirAttempted
  /\ ScalarsValid(cfg) /\ ReductionFits(cfg) /\ ArraysValid(cfg)
  /\ (cfg.log_degree + cfg.log_inv_rate) - cfg.folding_factor
       = cfg.field.two_adicity + 1
  /\ status = "failed" /\ failed = "two_adicity"

\* C9: construction fails whenever constraint_degree < 3, batch_size < 1,
\* log_inv_rate <= 0, folding_factor < 1 or num_iterations < 1, whatever
\* the other parameters are
ScalarsChecked ==
  WhirAttempted =>
    ((\/ cfg.constraint_degree < 3 \/ cfg.batch_size < 1 \/ cfg.log_inv_rate <= 0
      \/ cfg.folding_factor < 1 \/ cfg.num_iterations < 1) => status = "failed")

\* a configuration whose only defect is constraint_degree = 2 was rejected
ScalarsCheckedWitness ==
  /\ WhirAttempted
  /\ cfg.constraint_degree = 2
  /\ ScalarsValid([cfg EXCEPT !.constraint_degree = 3])
  /\ ReductionFits(cfg) /\ TwoAdicityFits(cfg) /\ ArraysValid(cfg)
  /\ status = "failed" /\ failed = "constraint_degree"

\* int(trace_length / rho), the domain size the folding rounds start from
DomainSize(c) == IntOf(FDiv(FromInt(c.trace_length), c.rho))

\* C10: a constructed FRI circuit has as many folding rounds as configured
\* folding factors, and dividing D by them in turn ends at
\* FRI_early_stop_degree, and the construction succeeds exactly when it
\* does; trace_length = 2^22, rho = 1/2, factors
\* [16,16,16,8,8] and early stop degree 32 give 5 rounds and a final size 32
FoldingRoundsCounted ==
  /\ (family = "FRI" /\ status = "constructed") =>
        /\ circuit.FRI_rounds_n = Len(cfg.FRI_folding_factors)
        /\ Divided(IntOf(circuit.D), cfg.FRI_folding_factors)
             = cfg.FRI_early_stop_degree
  /\ (/\ family = "FRI" /\ status \in {"constructed", "failed"}
      /\ cfg.num_columns <= cfg.batch_size) =>
        (status = "constructed" <=>
           Divided(DomainSize(cfg), cfg.FRI_folding_factors)
             = cfg.FRI_early_stop_degree)
  /\ (/\ family = "FRI" /\ status \in {"constructed", "failed"}
      /\ cfg.trace_length = 2 ^ 22 /\ cfg.rho = Pow2F(-1)
      /\ cfg.FRI_folding_factors = <<16, 16, 16, 8, 8>>
      /\ cfg.FRI_early_stop_degree = 32 /\ cfg.num_columns <= cfg.batch_size) =>
        /\ status = "constructed"
        /\ IntOf(circuit.D) = 2 ^ 23
        /\ circuit.FRI_rounds_n = 5
        /\ Divided(IntOf(circuit.D), cfg.FRI_folding_factors) = 32

\* the circuit with D = 2^23 and factors [16,16,16,8,8] was constructed with
\* 5 folding rounds
FoldingRoundsCountedWitness ==
  /\ family = "FRI" /\ status = "constructed"
  /\ IntOf(circuit.D) = 2 ^ 23
  /\ cfg.FRI_folding_factors = <<16, 16, 16, 8, 8>>
  /\ cfg.FRI_early_stop_degree = 32
  /\ circuit.FRI_rounds_n = 5

RegimeOf(R, field) ==
  IF R = "UDR" THEN UniqueDecodingRegime(field) ELSE JohnsonBoundRegime(field)

\* by how much the second of two circuits has more queries
MoreQueries == {0, 1, 2, 7}

\* the circuit with d more queries in the final phase
WithMoreQueries(self, d) ==
  IF self.family = "FRI" THEN [self EXCEPT !.num_queries = @ + d]
  ELSE [self EXCEPT !.num_queries = SetLast(@, At(@, -1) + d)]

\* the error of the final, query-dependent phase and its label
FinalPhaseError(self, regime) ==
  IF self.family = "FRI" THEN FRI_get_query_phase_error(self, regime)
  ELSE epsilon_final(self, regime)

FinalPhaseLabel(self) == IF self.family = "FRI" THEN "query phase" ELSE "fin"

FloatIsInteger(a) ==
  a.s = 0 \/ a.e >= 0 \/ ((-a.e) < Prec /\ a.m % Pow2(-a.e) = 0)

\* get_proof_size_bits() was called on the constructed circuit
ProofSizeCalled == status = "constructed" /\ proof_size.st # "none"

\* the size of a WHIR proof is a non-negative integer
WhirProofSizeIsNatural ==
  (ProofSizeCalled /\ circuit.family = "WHIR" /\ proof_size.st = "ok")
    => proof_size.val \in Nat

\* the size of a FRI proof is not negative
FriProofSizeNotNegative ==
  (ProofSizeCalled /\ circuit.family = "FRI" /\ proof_size.st = "ok")
    => proof_size.val.s \in {0, 1}

\* C18: get_proof_size_bits() returns a non-negative integer for every
\* constructed circuit: a WHIR circuit with any accepted schedule, a FRI
\* circuit with any accepted rate, folding factors and early stop degree
ProofSizeIsNonNegativeInteger ==
  (ProofSizeCalled /\ proof_size.st = "ok") =>
    IF circuit.family = "WHIR" THEN proof_size.val \in Nat
    ELSE proof_size.val.s \in {0, 1} /\ FloatIsInteger(proof_size.val)

\* 1/F + rho^num_queries * 2^(-grinding_query_phase) for the circuit
ToyProblemError(self) ==
  FAdd(FDiv(FOne, self.field.F),
       FMul(FPowInt(self.rho, self.num_queries), Pow2F(-self.grinding_query_phase)))

MaxLeafs == 17

Called(name, args) ==
  /\ family = name /\ cfg = args /\ status = "idle" /\ failed = ""
  /\ circuit = NoCircuit /\ security = NoResult /\ proof_size = NoResult

Returns(val) ==
  /\ status' = "returned" /\ proof_size' = [st |-> "ok", val |-> val]
  /\ UNCHANGED <<family, cfg, failed, circuit, security>>

Raises(exception) ==
  /\ status' = "raised" /\ failed' = exception
  /\ UNCHANGED <<family, cfg, circuit, security, proof_size>>

MerkleArgs ==
  [num_leafs : (-1 .. MaxLeafs) \cup {Pow2(20), Pow2(20) + 1},
   tuple_size : {0, 1, 2, 16},
   element_size_bits : {0, 32, 64},
   hash_size_bits : {0, 64, 256}]

CallMerklePath ==
  /\ family = "get_size_of_merkle_path_bits" /\ status = "idle"
  /\ IF MerkleDefined(cfg.num_leafs)
     THEN Returns(get_size_of_merkle_path_bits(cfg.num_leafs, cfg.tuple_size,
                                               cfg.element_size_bits, cfg.hash_size_bits))
     ELSE Raises("AssertionError")

MaxBitsArg == 9

\* the float 2^(-k) * (1 + i * 2^(1 - Prec)), 0 <= i < 2^(Prec - 1)
ErrorAbove(k, i) == [s |-> 1, m |-> Pow2(Prec - 1) + i, e |-> (-k) - (Prec - 1)]

BitsArgs ==
  {[error |-> ErrorAbove(k, i)] :
     k \in (0 - MaxBitsArg) .. MaxBitsArg, i \in {0, 1, 2, 3, Pow2(Prec - 1) - 1}}
  \cup {[error |-> FZero], [error |-> FNeg(FOne)], [error |-> FNeg(Pow2F(-3))]}

CallBitsOfSecurity ==
  /\ family = "get_bits_of_security_from_error" /\ status = "idle"
  /\ IF BitsDefined(cfg.error)
     THEN Returns(get_bits_of_security_from_error(cfg.error))
     ELSE Raises("ValueError")

\* the parameters after self that each regime class declares for a method;
\* neither class declares __init__, so a regime is constructed from no argument
Parameters(class, method) ==
  IF method = "__init__" THEN << >>
  ELSE IF method \in {"get_proximity_parameter", "get_max_list_size"} THEN <<"rate", "dimension">>
  ELSE IF method = "get_error_linear"
       THEN (IF class = "UDR" THEN <<"rate", "dimension", "field">> ELSE <<"rate", "dimension">>)
  ELSE (IF class = "UDR" THEN <<"rate", "dimension", "field", "num_functions">>
        ELSE <<"rate", "dimension", "num_functions">>)

RegimeMethods ==
  {"get_proximity_parameter", "get_max_list_size", "get_error_linear", "get_error_powers"}

\* Python binds positional arguments one to one: any other count is a TypeError
Binds(class, method, args) == Len(args) = Len(Parameters(class, method))

\* the attributes of a regime object after construction: no constructor sets any
NewRegime(class) == [family |-> "regime", class |-> class, attrs |-> << >>]

\* the body of a regime's method on bound arguments; every method of the
\* Johnson bound regime reads self.field
RegimeBody(self, method, v) ==
  IF self.class = "UDR"
  THEN (IF method = "get_proximity_parameter" THEN UDR_get_proximity_parameter(v.rate, v.dimension)
        ELSE IF method = "get_max_list_size" THEN UDR_get_max_list_size(v.rate, v.dimension)
        ELSE IF method = "get_error_linear" THEN UDR_get_error_linear(v.rate, v.dimension, v.field)
        ELSE UDR_get_error_powers(v.rate, v.dimension, v.field, v.num_functions))
  ELSE IF "field" \notin DOMAIN self.attrs THEN Raise("AttributeError")
  ELSE (IF method = "get_proximity_parameter"
        THEN JBR_get_proximity_parameter(self.attrs.field, v.rate, v.dimension)
        ELSE IF method = "get_max_list_size"
        THEN JBR_get_max_list_size(self.attrs.field, v.rate, v.dimension)
        ELSE IF method = "get_error_linear"
        THEN JBR_get_error_linear(self.attrs.field, v.rate, v.dimension)
        ELSE JBR_get_error_powers(self.attrs.field, v.rate, v.dimension, v.num_functions))

\* the argument lists of the calls the circuits issue, and the call of the
\* abstract signature
RegimeCallArgs ==
  {<<"rate", "dimension">>, <<"rate", "dimension", "field">>,
   <<"rate", "dimension", "num_functions">>, <<"rate", "dimension", "field", "num_functions">>,
   <<"rate", "dimension", "field", "delta">>}

RegimeArgs ==
  [class : {"UDR", "JBR"}, construct_args : {<< >>, <<"field">>},
   method : RegimeMethods, args : RegimeCallArgs,
   rate : {Pow2F(-1), Pow2F(-2)}, dimension : {FromInt(16)},
   field : {GOLDILOCKS_2}, num_functions : {1, 4}]

ConstructRegime ==
  /\ family = "regime" /\ status = "idle"
  /\ IF Binds(cfg.class, "__init__", cfg.construct_args)
     THEN /\ status' = "constructed" /\ circuit' = NewRegime(cfg.class)
          /\ UNCHANGED <<family, cfg, failed, security, proof_size>>
     ELSE Raises("TypeError")

CallRegime ==
  /\ family = "regime" /\ status = "constructed"
  /\ IF ~Binds(cfg.class, cfg.method, cfg.args) THEN Raises("TypeError")
     ELSE LET val == RegimeBody(circuit, cfg.method, cfg)
          IN  IF Raised(val) THEN Raises(val.m) ELSE Returns(val)

MaxRateExp == 30

\* the floats m * 2^(-k) * 2^(1 - Prec) in (0, 1): rates from just below 1
\* down to 2^(-MaxRateExp)
Rates ==
  {[s |-> 1, m |-> m, e |-> (-k) - (Prec - 1)] :
     k \in 1 .. MaxRateExp,
     m \in {Pow2(Prec - 1), Pow2(Prec - 1) + 1, 3 * Pow2(Prec - 2), Pow2(Prec) - 2, Pow2(Prec) - 1}}

\* both regimes, over a field below and a field above 2^150
ProximityArgs ==
  [regime : {UniqueDecodingRegime(f) : f \in {GOLDILOCKS_2, BABYBEAR_5}}
              \cup {JohnsonBoundRegime(f) : f \in {GOLDILOCKS_2, BABYBEAR_5}},
   rate : Rates, dimension : {FromInt(16)}]

CallProximityParameter ==
  /\ family = "get_proximity_parameter" /\ status = "idle"
  /\ LET val == get_proximity_parameter(cfg.regime, cfg.rate, cfg.dimension)
     IN  IF Raised(val) THEN Raises(val.m) ELSE Returns(val)

\* a str is the sequence of its characters
Digit == <<"0", "1", "2", "3", "4", "5", "6", "7", "8", "9">>

IsDigit(c) == \E d \in 1 .. 10 : Digit[d] = c

DigitValue(c) == (CHOOSE d \in 1 .. 10 : Digit[d] = c) - 1

RECURSIVE IntLoop(_, _)
IntLoop(x, acc) ==
  IF x = << >> THEN acc
  ELSE IF ~IsDigit(Head(x)) THEN -1
  ELSE IntLoop(Tail(x), 10 * acc + DigitValue(Head(x)))

\* int(x) for a str x without sign: its decimal value, or -1 for the
\* ValueError on an empty string or on a character that is no digit
int(x) == IF x = << >> THEN -1 ELSE IntLoop(x, 0)

RECURSIVE SplitLoop(_, _, _, _)
SplitLoop(s, sep, cur, acc) ==
  IF s = << >> THEN Append(acc, cur)
  ELSE IF Head(s) = sep THEN SplitLoop(Tail(s), sep, << >>, Append(acc, cur))
  ELSE SplitLoop(Tail(s), sep, Append(cur, Head(s)), acc)

\* s.split(sep): the pieces between the separators, empty ones included
split(s, sep) == SplitLoop(s, sep, << >>, << >>)

\* [1 << (values[i] - values[i + 1]) for i in range(len(values) - 1)] and
\* 1 << values[-1]; a negative shift count is a ValueError
FoldingOf(values, last) ==
  IF \E i \in 1 .. Len(values) - 1 : values[i] < values[i + 1]
  THEN Raise("ValueError")
  ELSE [folding_factors |-> [i \in 1 .. Len(values) - 1 |-> Pow2(values[i] - values[i + 1])],
        early_stop_degree |-> Pow2(last)]

\* faulty variant of _parse_fri_folding_arities: the early stop degree is
\* taken from the first value
parse_fri_folding_arities_first_value(fri_fa_str) ==
  Let1(split(fri_fa_str, "-"), LAMBDA parts :
    Let1([i \in 1 .. Len(parts) |-> int(parts[i])], LAMBDA values :
      IF \E i \in 1 .. Len(values) : values[i] < 0 THEN Raise("ValueError")
      ELSE FoldingOf(values, values[1])))

_parse_fri_folding_arities(fri_fa_str) ==
  Let1(split(fri_fa_str, "-"), LAMBDA parts :
    Let1([i \in 1 .. Len(parts) |-> int(parts[i])], LAMBDA values :
      IF \E i \in 1 .. Len(values) : values[i] < 0 THEN Raise("ValueError")
      ELSE FoldingOf(values, values[Len(values)])))

MaxValues == 3

\* log2 domain sizes of one and two digits
LogSizes == {0, 5, 9, 10, 23}

ValueLists == UNION {[1 .. n -> LogSizes] : n \in 1 .. MaxValues}

RECURSIVE Digits(_)
\* str(n) for n >= 0
Digits(n) == IF n < 10 THEN <<Digit[n + 1]>> ELSE Digits(n \div 10) \o <<Digit[(n % 10) + 1]>>

RECURSIVE Dashed(_)
\* "-".join(str(v) for v in values)
Dashed(values) ==
  IF Len(values) = 1 THEN Digits(values[1])
  ELSE Digits(values[1]) \o <<"-">> \o Dashed(Tail(values))

Written == [v \in ValueLists |-> Dashed(v)]

\* "23-19-15-11-8-5", "17-13-9-5" and "20-15-10"
MainFriFa == <<"2", "3", "-", "1", "9", "-", "1", "5", "-", "1", "1", "-", "8", "-", "5">>
ShortFriFa == <<"1", "7", "-", "1", "3", "-", "9", "-", "5">>
FinalFriFa == <<"2", "0", "-", "1", "5", "-", "1", "0">>

\* the written lists, the three strings of the tests, and "", "5-", "23--5",
\* "2a"
FriFaArgs ==
  {[fri_fa_str |-> Written[v]] : v \in ValueLists}
    \cup {[fri_fa_str |-> x] : x \in {MainFriFa, ShortFriFa, FinalFriFa}}
    \cup {[fri_fa_str |-> x] :
            x \in {<< >>, <<"5", "-">>, <<"2", "3", "-", "-", "5">>, <<"2", "a">>}}

CallParseFriFoldingArities ==
  /\ family = "_parse_fri_folding_arities" /\ status = "idle"
  /\ LET val == _parse_fri_folding_arities(cfg.fri_fa_str)
     IN  IF "s" \in DOMAIN val THEN Raises(val.m) ELSE Returns(val)

\* sizes small enough for the sum to be exact at the mantissa length Prec
FriSizeArgs ==
  [hash_size_bits : {8, 16}, field_size_bits : {2, 3}, batch_size : {1, 2},
   num_queries : {0, 1, 2}, domain_size : {8, 12, 16},
   folding_factors : UNION {[1 .. n -> {2, 4}] : n \in 0 .. MaxFriRounds},
   rate : {Pow2F(-1), Pow2F(-2)}]

CallFRIProofSize ==
  /\ family = "get_FRI_proof_size_bits" /\ status = "idle"
  /\ LET size == get_FRI_proof_size_bits(cfg.hash_size_bits, cfg.field_size_bits,
                                         cfg.batch_size, cfg.num_queries, cfg.domain_size,
                                         cfg.folding_factors, cfg.rate)
     IN  IF size.st = "ok" THEN Returns(size.val) ELSE Raises(size.st)

\* a row of the circuit tables of zisk.py; the column fri_fa is the string
\* of the log2 domain sizes joined by dashes, "23-19-15-11-8-5"
Row(name, bits, bf, d, fixed, stage1, pols, queries, opens, fri_fa) ==
  [name |-> name, bits |-> bits, bf |-> bf, d |-> d, fixed |-> fixed,
   stage1 |-> stage1, pols |-> pols, queries |-> queries, opens |-> opens,
   fri_fa |-> Dashed(fri_fa)]

ZISK_BASE_CIRCUITS ==
  <<
     Row("Main", 22, 1, 3, 3, 38, 61, 128, 3, <<23, 19, 15, 11, 8, 5>>),
     Row("Rom", 22, 1, 2, 1, 1, 18, 128, 3, <<23, 19, 15, 11, 8, 5>>),
     Row("Mem", 22, 1, 3, 2, 13, 29, 128, 3, <<23, 19, 15, 11, 8, 5>>),
     Row("RomData", 21, 1, 3, 2, 6, 19, 128, 3, <<22, 18, 14, 11, 8, 5>>),
     Row("InputData", 21, 1, 3, 2, 9, 27, 128, 3, <<22, 18, 14, 11, 8, 5>>),
     Row("MemAlign", 21, 1, 3, 2, 29, 59, 128, 3, <<22, 18, 14, 11, 8, 5>>),
     Row("MemAlignByte", 22, 1, 3, 1, 16, 25, 128, 3, <<23, 19, 15, 11, 8, 5>>),
     Row("MemAlignReadByte", 22, 1, 3, 1, 10, 18, 128, 3, <<23, 19, 15, 11, 8, 5>>),
     Row("MemAlignWriteByte", 22, 1, 3, 1, 14, 23, 128, 3, <<23, 19, 15, 11, 8, 5>>),
     Row("Arith", 21, 1, 3, 1, 44, 64, 128, 3, <<22, 18, 14, 11, 8, 5>>),
     Row("Binary", 22, 1, 3, 1, 39, 49, 128, 3, <<23, 19, 15, 11, 8, 5>>),
     Row("BinaryAdd", 22, 1, 3, 1, 10, 18, 128, 3, <<23, 19, 15, 11, 8, 5>>),
     Row("BinaryExtension", 22, 1, 3, 1, 29, 40, 128, 3, <<23, 19, 15, 11, 8, 5>>),
     Row("Add256", 20, 1, 3, 1, 47, 69, 128, 3, <<21, 17, 13, 9, 5>>),
     Row("ArithEq", 20, 1, 3, 2, 39, 434, 128, 36, <<21, 17, 13, 9, 5>>),
     Row("ArithEq384", 20, 1, 3, 2, 33, 536, 128, 54, <<21, 17, 13, 9, 5>>),
     Row("Keccakf", 16, 1, 3, 2, 2137, 4065, 128, 26, <<17, 13, 9, 5>>),
     Row("Sha256f", 18, 1, 3, 2, 102, 1265, 128, 87, <<19, 15, 11, 8, 5>>),
     Row("SpecifiedRanges", 20, 1, 3, 34, 33, 88, 128, 3, <<21, 17, 13, 9, 5>>),
     Row("VirtualTable0", 20, 1, 3, 100, 16, 129, 128, 3, <<21, 17, 13, 9, 5>>),
     Row("VirtualTable1", 20, 1, 3, 145, 16, 174, 128, 3, <<21, 17, 13, 9, 5>>)
  >>

ZISK_RECURSIVE_CIRCUITS ==
  <<
     Row("ArithEq Compressor", 18, 2, 3, 45, 36, 238, 64, 4, <<20, 16, 12, 8, 5>>),
     Row("ArithEq384 Compressor", 18, 2, 3, 45, 36, 238, 64, 4, <<20, 16, 12, 8, 5>>),
     Row("Keccakf Compressor", 21, 2, 3, 45, 36, 238, 64, 4, <<23, 19, 15, 11, 8, 5>>),
     Row("Sha256f Compressor", 19, 2, 3, 45, 36, 238, 64, 4, <<21, 17, 13, 9, 5>>),
     Row("VirtualTable1 Compressor", 18, 2, 3, 45, 36, 238, 64, 4, <<20, 16, 12, 8, 5>>),
     Row("Recursive1", 17, 3, 3, 45, 36, 243, 43, 4, <<20, 16, 12, 8, 5>>),
     Row("Recursive2", 17, 3, 3, 45, 36, 243, 43, 4, <<20, 16, 12, 8, 5>>),
     Row("Final", 16, 4, 3, 45, 42, 249, 32, 4, <<20, 15, 10>>)
  >>

\* the configuration _make_circuit hands to FRIBasedCircuit
MakeCircuitConfig(row, parsed) ==
  [name |-> row.name,
   trace_length |-> Pow2(row.bits),
   rho |-> FDiv(FOne, FromInt(Pow2(row.bf))),
   AIR_max_degree |-> row.d,
   num_columns |-> row.fixed + row.stage1,
   batch_size |-> row.pols,
   num_queries |-> row.queries,
   max_combo |-> row.opens,
   FRI_folding_factors |-> parsed.folding_factors,
   FRI_early_stop_degree |-> parsed.early_stop_degree,
   field |-> GOLDILOCKS_3,
   hash_size_bits |-> 256,
   power_batching |-> TRUE,
   grinding_query_phase |-> 0]

\* _make_circuit(*row): the outcome of the construction, or the exception of
\* the parser
_make_circuit(row) ==
  Let1(_parse_fri_folding_arities(row.fri_fa), LAMBDA parsed :
    IF "s" \in DOMAIN parsed
    THEN [ok |-> FALSE, failed |-> parsed.m, circuit |-> NoCircuit]
    ELSE FRIBasedCircuit(MakeCircuitConfig(row, parsed)))

\* while n > FRI_early_stop_degree: FRI_folding_factors.append(FRI_folding_factor);
\* n //= FRI_folding_factor
RECURSIVE PresetFoldingFactors(_, _, _)
PresetFoldingFactors(n, FRI_folding_factor, FRI_early_stop_degree) ==
  IF n > FRI_early_stop_degree
  THEN <<FRI_folding_factor>>
       \o PresetFoldingFactors(n \div FRI_folding_factor, FRI_folding_factor,
                               FRI_early_stop_degree)
  ELSE << >>

\* MidenPreset._main_circuit: the configuration it constructs the circuit from
MidenConfig ==
  [name |-> "main",
   hash_size_bits |-> 256,
   rho |-> FDiv(FOne, FromInt(8)),
   trace_length |-> Pow2(18),
   field |-> GOLDILOCKS_2,
   num_columns |-> 100,
   batch_size |-> 100,
   power_batching |-> TRUE,
   num_queries |-> 27,
   max_combo |-> 2,
   FRI_folding_factors |->
     PresetFoldingFactors(IntOf(FDiv(FromInt(Pow2(18)), FDiv(FOne, FromInt(8)))),
                          4, Pow2(7)),
   FRI_early_stop_degree |-> Pow2(7),
   grinding_query_phase |-> 16,
   AIR_max_degree |-> 9]

\* Risc0Preset._main_circuit: the configuration it constructs the circuit from
Risc0Config ==
  [Risc0Example EXCEPT
     !.FRI_folding_factors =
        PresetFoldingFactors(IntOf(FDiv(FromInt(Pow2(21)), FDiv(FOne, FromInt(4)))),
                             16, Pow2(7))]

\* the rows of the two tables, and the row "Final" with a trace of 2^17
\* instead of 2^16 rows
MakeCircuitArgs ==
  {ZISK_BASE_CIRCUITS[i] : i \in DOMAIN ZISK_BASE_CIRCUITS}
    \cup {ZISK_RECURSIVE_CIRCUITS[i] : i \in DOMAIN ZISK_RECURSIVE_CIRCUITS}
    \cup {[ZISK_RECURSIVE_CIRCUITS[Len(ZISK_RECURSIVE_CIRCUITS)] EXCEPT !.bits = 17]}

\* _make_circuit(*row)
CallMakeCircuit ==
  /\ family = "_make_circuit" /\ status = "idle"
  /\ LET made == _make_circuit(cfg)
     IN  IF made.ok THEN Returns(made.circuit) ELSE Raises(made.failed)

\* MidenPreset._main_circuit() and Risc0Preset._main_circuit()
CallMainCircuit ==
  /\ family = "_main_circuit" /\ status = "idle"
  /\ LET made == FRIBasedCircuit(cfg)
     IN  IF made.ok THEN Returns(made.circuit) ELSE Raises(made.failed)

\* DummyWHIRPreset.default: the configuration cfg
DummyWHIRConfig ==
  [name |-> "DummyWHIR",
   hash_size_bits |-> 256,
   log_inv_rate |-> 1,
   num_iterations |-> 5,
   folding_factor |-> 4,
   field |-> GOLDILOCKS_2,
   log_degree |-> 23,
   batch_size |-> 100,
   power_batching |-> TRUE,
   grinding_bits_batching |-> 10,
   grinding_bits_folding |->
     <<<<10, 10, 10, 10>>, <<10, 10, 10, 10>>, <<10, 10, 10, 10>>,
       <<10, 10, 10, 10>>, <<10, 10, 10, 10>>>>,
   constraint_degree |-> 1,
   num_queries |-> <<80, 35, 22, 12, 9>>,
   grinding_bits_queries |-> <<0, 0, 0, 12, 20>>,
   num_ood_samples |-> <<2, 2, 2, 2>>,
   grinding_bits_ood |-> <<0, 0, 0, 0>>]

\* the configuration of the preset, and the same with constraint degree 3
DummyWHIRArgs ==
  {DummyWHIRConfig, [DummyWHIRConfig EXCEPT !.constraint_degree = 3]}

\* DummyWHIRPreset.default(): the circuit constructed from cfg
CallDummyWHIR ==
  /\ family = "DummyWHIRPreset.default" /\ status = "idle"
  /\ LET made == WHIRBasedCircuit(cfg)
     IN  IF made.ok THEN Returns(made.circuit) ELSE Raises(made.failed)

CallsInit ==
  \/ \E args \in MerkleArgs : Called("get_size_of_merkle_path_bits", args)
  \/ \E args \in BitsArgs : Called("get_bits_of_security_from_error", args)
  \/ \E args \in RegimeArgs : Called("regime", args)
  \/ \E args \in ProximityArgs : Called("get_proximity_parameter", args)
  \/ \E args \in FriFaArgs : Called("_parse_fri_folding_arities", args)
  \/ \E args \in FriSizeArgs : Called("get_FRI_proof_size_bits", args)
  \/ \E args \in MakeCircuitArgs : Called("_make_circuit", args)
  \/ \E args \in {MidenConfig, Risc0Config} : Called("_main_circuit", args)
  \/ \E args \in DummyWHIRArgs : Called("DummyWHIRPreset.default", args)

CallsNext ==
  \/ CallMerklePath
  \/ CallBitsOfSecurity
  \/ ConstructRegime
  \/ CallRegime
  \/ CallProximityParameter
  \/ CallParseFriFoldingArities
  \/ CallFRIProofSize
  \/ CallMakeCircuit
  \/ CallMainCircuit
  \/ CallDummyWHIR

Calls == CallsInit /\ [][CallsNext]_vars

\* the least d with 2^d >= n, for 1 <= n <= 2^30
Depth(n) == CHOOSE d \in 0 .. 30 : Pow2(d) >= n /\ (d = 0 \/ Pow2(d - 1) < n)

Least(a, b) == IF a <= b THEN a ELSE b

BitsCalled == family = "get_bits_of_security_from_error" /\ status # "idle"

\* bits_of_security(2^-k) = k for the integers k >= 0
BitsOfPowerOfTwo ==
  BitsCalled =>
    \A k \in 0 .. MaxBitsArg :
       cfg.error = Pow2F(-k) => status = "returned" /\ proof_size.val = k

\* the conversion is fatal for an error <= 0
BitsFatalForNonPositive ==
  BitsCalled => (cfg.error.s \in {-1, 0} <=> status = "raised")

\* the value returned is the largest k with error <= 2^-k
BitsIsLargestK ==
  (BitsCalled /\ status = "returned") =>
    /\ FLe(cfg.error, Pow2F(-proof_size.val))
    /\ FGt(cfg.error, Pow2F(-(proof_size.val + 1)))

\* C12: bits_of_security(error) is the largest integer k with error <= 2^-k
\* for every error > 0 (negative when error > 1), so bits_of_security(2^-k)
\* = k for k >= 0; for error <= 0 the conversion is fatal
BitsOfSecurityIsFloorLog ==
  BitsOfPowerOfTwo /\ BitsFatalForNonPositive /\ BitsIsLargestK

\* the argument list the specification gives for each regime method
UniformArgs(method) ==
  IF method = "get_error_powers" THEN <<"rate", "dimension", "num_functions">>
  ELSE <<"rate", "dimension">>

\* C15: a regime of either class is constructed from a field, and then answers
\* get_proximity_parameter(rate, dimension), get_max_list_size(rate, dimension),
\* get_error_linear(rate, dimension) and
\* get_error_powers(rate, dimension, num_functions): no such call is refused
RegimesAcceptSameCalls ==
  (family = "regime" /\ cfg.construct_args = <<"field">> /\ cfg.args = UniformArgs(cfg.method))
    => status # "raised"

\* the regime's proximity parameter was computed for cfg.rate
ProximityCalled == family = "get_proximity_parameter" /\ status # "idle"

\* the Johnson bound 1 - sqrt(rate), in the arithmetic of the code
JohnsonBound(rate) == FSub(FOne, FSqrt(rate))

\* C16: for both regimes and every 0 < rate < 1 the proximity parameter
\* returned is strictly below the Johnson bound 1 - sqrt(rate)
ProximityBelowJohnsonBound ==
  ProximityCalled =>
    status = "returned" /\ FLt(proof_size.val, JohnsonBound(cfg.rate))

\* both bounds hold on the rates between 2^-8 and 3/4
ProximityOnMiddleRates ==
  (ProximityCalled /\ FLe(Pow2F(-8), cfg.rate) /\ FLe(cfg.rate, FDiv(FromInt(3), FromInt(4))))
    => /\ status = "returned"
       /\ FLt(proof_size.val, JohnsonBound(cfg.rate))
       /\ FGt(proof_size.val, FZero)

\* C17: the proximity parameter of the Johnson bound regime is strictly between
\* 0 and 1 - sqrt(rate), for every 0 < rate < 1 and for a field above 2^150
\* as for a field below
JohnsonProximityInRange ==
  (ProximityCalled /\ identifier(cfg.regime) = "JBR")
    => /\ status = "returned"
       /\ FGt(proof_size.val, FZero)
       /\ FLt(proof_size.val, JohnsonBound(cfg.rate))

\* the product of the numbers in xs
RECURSIVE Product(_)
Product(xs) == IF xs = << >> THEN 1 ELSE Head(xs) * Product(Tail(xs))

NonIncreasing(v) == \A i \in 1 .. Len(v) - 1 : v[i] >= v[i + 1]

\* what the parser has to return for the values v
FoldingOfValues(v) ==
  [folding_factors |-> [i \in 1 .. Len(v) - 1 |-> Pow2(v[i] - v[i + 1])],
   early_stop_degree |-> Pow2(v[Len(v)])]

\* C20: from the non-increasing log2 domain sizes v_0-v_1-...-v_n written with
\* dashes, _parse_fri_folding_arities returns the folding factors
\* 2^(v_i - v_(i+1)) and the early stop degree 2^(v_n), whose product is
\* 2^(v_0); "23-19-15-11-8-5" gives ([16,16,16,8,8], 32), "17-13-9-5" gives
\* ([16,16,16], 32) and "20-15-10" gives ([32,32], 1024)
FriFaParsed ==
  (family = "_parse_fri_folding_arities" /\ status # "idle") =>
    /\ \A v \in ValueLists :
         (cfg.fri_fa_str = Written[v] /\ NonIncreasing(v)) =>
           /\ status = "returned"
           /\ proof_size.val = FoldingOfValues(v)
           /\ Pow2(v[1]) = proof_size.val.early_stop_degree
                             * Product(proof_size.val.folding_factors)
    /\ cfg.fri_fa_str = MainFriFa =>
         /\ status = "returned"
         /\ proof_size.val
              = [folding_factors |-> <<16, 16, 16, 8, 8>>, early_stop_degree |-> 32]
    /\ cfg.fri_fa_str = ShortFriFa =>
         /\ status = "returned"
         /\ proof_size.val = [folding_factors |-> <<16, 16, 16>>, early_stop_degree |-> 32]
    /\ cfg.fri_fa_str = FinalFriFa =>
         /\ status = "returned"
         /\ proof_size.val = [folding_factors |-> <<32, 32>>, early_stop_degree |-> 1024]

\* "23-10-5" was parsed into ([8192, 32], 32)
FriFaParsedWitness ==
  /\ family = "_parse_fri_folding_arities" /\ status = "returned"
  /\ cfg.fri_fa_str = <<"2", "3", "-", "1", "0", "-", "5">>
  /\ proof_size.val = [folding_factors |-> <<8192, 32>>, early_stop_degree |-> 32]

\* C21: a FRI circuit is constructed only if its domain size D equals the
\* early stop degree times the product of the folding factors, so that every
\* division of the running domain size by a folding factor is exact
FoldingMismatchIsFatal ==
  (family = "FRI" /\ status = "constructed") =>
    IntOf(circuit.D) = circuit.FRI_early_stop_degree * Product(circuit.FRI_folding_factors)

\* a mismatch that the construction does reject: the folded size differs from
\* the early stop degree
FoldedSizeChecked ==
  (family = "FRI" /\ status = "constructed") =>
    Divided(IntOf(circuit.D), circuit.FRI_folding_factors) = circuit.FRI_early_stop_degree

\* the error of commit round i + 1 on the dimension trace_length divided by
\* the product of the folding factors of the rounds 0 .. i
CommitErrorAfterFolding(self, i, regime) ==
  get_error_powers(regime, self.rho,
                   FDiv(FromInt(self.trace_length),
                        FromInt(Product(SubSeq(self.FRI_folding_factors, 1, i + 1)))),
                   self.batch_size)

CommitLevelsAfterFolding(self, levels) ==
  \A R \in Regimes : \A i \in 0 .. self.FRI_rounds_n - 1 :
     levels[R][CommitLabel(i)]
       = get_bits_of_security_from_error(
           CommitErrorAfterFolding(self, i, RegimeOf(R, self.field)))

\* C22: for every FRI circuit there is one commit round entry per folding
\* round, and the error of commit round i + 1 is computed on the dimension
\* trace_length divided by the product of the folding factors of the rounds
\* 0 .. i, also when the factors differ between rounds
CommitRoundDimension ==
  (family = "FRI" /\ security.st = "ok") =>
    /\ \A R \in Regimes :
         {l \in DOMAIN security.val[R] : l \notin {"batching", "query phase", "ALI", "DEEP", "total"}}
           = {CommitLabel(i) : i \in 0 .. circuit.FRI_rounds_n - 1}
    /\ CommitLevelsAfterFolding(circuit, security.val)

\* the same, for the circuits all of whose folding factors are equal
CommitRoundDimensionOnEqualFactors ==
  (family = "FRI" /\ security.st = "ok"
     /\ \A i, j \in DOMAIN circuit.FRI_folding_factors :
           circuit.FRI_folding_factors[i] = circuit.FRI_folding_factors[j]) =>
    CommitLevelsAfterFolding(circuit, security.val)

\* C23: a constructed WHIR circuit has log_degrees[i] = log_degree - i * k
\* and log_inv_rates[i] = log_inv_rate + i * (k - 1) for i in 0 .. M, k the
\* folding factor and M the number of iterations; no log degree is negative;
\* and the code of iteration i and round s has dimension
\* 2^(log_degrees[i] - s) and rate 2^(-log_inv_rates[i]), for every round s in
\* 0 .. k
WhirSchedules ==
  (family = "WHIR" /\ status = "constructed") =>
    /\ Len(circuit.log_degrees) = cfg.num_iterations + 1
    /\ Len(circuit.log_inv_rates) = cfg.num_iterations + 1
    /\ \A i \in 0 .. cfg.num_iterations :
         /\ circuit.log_degrees[i + 1] = cfg.log_degree - i * cfg.folding_factor
         /\ circuit.log_degrees[i + 1] >= 0
         /\ circuit.log_inv_rates[i + 1] = cfg.log_inv_rate + i * (cfg.folding_factor - 1)
    /\ \A i \in 0 .. cfg.num_iterations - 1 : \A s \in 0 .. cfg.folding_factor :
         get_code_for_iteration_and_round(circuit, i, s)
           = [rate |-> Pow2F(-(cfg.log_inv_rate + i * (cfg.folding_factor - 1))),
              dimension |-> Pow2F((cfg.log_degree - i * cfg.folding_factor) - s)]

\* a circuit of two iterations folding by 2 from log degree 4 down to 0
WhirSchedulesWitness ==
  /\ family = "WHIR" /\ status = "constructed"
  /\ circuit.log_degrees = <<4, 2, 0>>
  /\ circuit.log_inv_rates = <<1, 2, 3>>
  /\ get_code_for_iteration_and_round(circuit, 1, 2).dimension = FOne

\* the phase labels of a WHIR circuit of M iterations folding by k
WhirPhaseLabels(M, k, batch_size) ==
  (IF batch_size > 1 THEN {"batching"} ELSE {})
  \cup {"fold(i=" \o ToString(i) \o ",s=" \o ToString(s) \o ")" : i \in 0 .. M - 1, s \in 1 .. k}
  \cup {"OOD(i=" \o ToString(i) \o ")" : i \in 1 .. M - 1}
  \cup {"Shift(i=" \o ToString(i) \o ")" : i \in 1 .. M - 1}
  \cup {"fin"}

RECURSIVE RoundsBits(_, _, _)
RoundsBits(n, factors, a) ==
  IF factors = << >> THEN 0
  ELSE a.hash_size_bits
       + a.num_queries * get_size_of_merkle_path_bits(n \div Head(factors), Head(factors),
                                                      a.field_size_bits, a.hash_size_bits)
       + RoundsBits(n \div Head(factors), Tail(factors), a)

\* C25: the FRI proof size is hash_bits + num_queries * merkle_path_bits(D,
\* batch_size, element_bits, hash_bits), plus for every folding round with
\* domain size n_i the amount hash_bits + num_queries *
\* merkle_path_bits(n_i / factor_i, factor_i, element_bits, hash_bits), plus
\* rate * n_final * element_bits for the domain size after the last round
FriProofSizeFormula ==
  (family = "get_FRI_proof_size_bits" /\ status = "returned") =>
    proof_size.val
      = FAdd(FromInt(cfg.hash_size_bits
                     + cfg.num_queries
                       * get_size_of_merkle_path_bits(cfg.domain_size, cfg.batch_size,
                                                      cfg.field_size_bits, cfg.hash_size_bits)
                     + RoundsBits(cfg.domain_size, cfg.folding_factors, cfg)),
             FMul(FMul(cfg.rate, FromInt(Divided(cfg.domain_size, cfg.folding_factors))),
                  FromInt(cfg.field_size_bits)))

\* domain size 16 folded by 2 and by 4 with two queries, hash 16, elements of
\* 3 bits, batch 2 and rate 1/4: 136 + 104 + 64 + 1.5 bits
FriProofSizeFormulaWitness ==
  /\ family = "get_FRI_proof_size_bits" /\ status = "returned"
  /\ cfg = [hash_size_bits |-> 16, field_size_bits |-> 3, batch_size |-> 2,
            num_queries |-> 2, domain_size |-> 16, folding_factors |-> <<2, 4>>,
            rate |-> Pow2F(-2)]
  /\ proof_size.val = FDiv(FromInt(611), FromInt(2))

\* extension_degree * ceil(log2 p)
ExtBits(self) ==
  self.field.field_extension_degree * base_field_element_size_bits(self.field)

\* the root, OOD answers and sumcheck polynomials of iterations i .. M-1
RECURSIVE WhirRoundBits(_, _)
WhirRoundBits(self, i) ==
  IF i > self.num_iterations - 1 THEN 0
  ELSE self.hash_size_bits
       + self.num_ood_samples[i] * ExtBits(self)
       + self.folding_factor * (self.constraint_degree + 1) * ExtBits(self)
       + WhirRoundBits(self, i + 1)

\* the queried Merkle paths of iterations i .. M-1
RECURSIVE WhirPathBits(_, _)
WhirPathBits(self, i) ==
  IF i > self.num_iterations - 1 THEN 0
  ELSE self.num_queries[i + 1]
       * get_size_of_merkle_path_bits(
           Pow2(self.log_degrees[i + 1] + self.log_inv_rates[i + 1])
             \div Pow2(self.folding_factor),
           Pow2(self.folding_factor),
           IF i = 0 THEN base_field_element_size_bits(self.field) ELSE ExtBits(self),
           self.hash_size_bits)
       + WhirPathBits(self, i + 1)

\* C26: the size of a WHIR proof is the initial root and sumcheck,
\* hash_bits + k(d+1) ext_bits, plus for the iterations 1 .. M-1 a root, the
\* OOD answers and a sumcheck, plus the 2^(m_M) coefficients of the final
\* polynomial, plus for the iterations 0 .. M-1 num_queries[i] Merkle paths
\* on 2^(m_i + log_inv_rate_i) / 2^k leaves of 2^k elements, base field
\* elements in iteration 0 and extension field elements afterwards
WhirProofSizeFormula ==
  (ProofSizeCalled /\ circuit.family = "WHIR")
    => /\ proof_size.st = "ok"
       /\ proof_size.val
            = circuit.hash_size_bits
              + circuit.folding_factor * (circuit.constraint_degree + 1) * ExtBits(circuit)
              + WhirRoundBits(circuit, 1)
              + Pow2(circuit.log_degrees[circuit.num_iterations + 1]) * ExtBits(circuit)
              + WhirPathBits(circuit, 0)

\* two iterations folding by 5 over Goldilocks^2: 256 + 2560 for the start,
\* 2944 for iteration 1, 128 for the final polynomial, 3 * 3584 and 3 * 5376
\* for the paths
WhirProofSizeFormulaWitness ==
  /\ ProofSizeCalled /\ cfg = AcceptedExample
  /\ proof_size.val = 32768


\* get_size_of_merkle_path_bits returned for at least one leaf under a hash
\* of positive size
MerklePathReturned ==
  /\ family = "get_size_of_merkle_path_bits" /\ status = "returned"
  /\ cfg.num_leafs >= 1 /\ cfg.hash_size_bits > 0

\* C27: for every num_leaves >= 1 and hash_bits > 0 the size of a Merkle
\* path is at least the leaf payload tuple_size * element_bits, the co-path
\* contribution being never negative, and the size does not decrease when
\* num_leaves grows
MerklePathAtLeastLeaf ==
  MerklePathReturned =>
    /\ proof_size.val >= cfg.tuple_size * cfg.element_size_bits
    /\ proof_size.val
         <= get_size_of_merkle_path_bits(cfg.num_leafs + 1, cfg.tuple_size,
                                         cfg.element_size_bits, cfg.hash_size_bits)

\* the size does not decrease when num_leaves grows, a single leaf included
MerklePathNonDecreasing ==
  MerklePathReturned =>
    proof_size.val
      <= get_size_of_merkle_path_bits(cfg.num_leafs + 1, cfg.tuple_size,
                                      cfg.element_size_bits, cfg.hash_size_bits)

\* from two leaves on the size is at least the leaf payload
MerklePathAtLeastLeafFromTwoLeaves ==
  (MerklePathReturned /\ cfg.num_leafs >= 2) =>
    proof_size.val >= cfg.tuple_size * cfg.element_size_bits


\* log2 of the domain size of iteration i
LogDomain(self, i) == self.log_degrees[i + 1] + self.log_inv_rates[i + 1]

\* C28: in every constructed WHIR circuit the log2 domain size
\* m_i + log_inv_rate_i decreases by exactly 1 from each iteration to the
\* next, and for every iteration i in 0 .. M-1 the number of Merkle leaves
\* 2^(m_i + log_inv_rate_i) / 2^k is an integer >= 2, so that the tree of a
\* queried function never has depth 0
WhirDomainHalves ==
  (status = "constructed" /\ circuit.family = "WHIR") =>
    /\ \A i \in 0 .. (circuit.num_iterations - 1) :
          LogDomain(circuit, i + 1) = LogDomain(circuit, i) - 1
    /\ \A i \in 0 .. (circuit.num_iterations - 1) :
          /\ LogDomain(circuit, i) >= circuit.folding_factor
          /\ Pow2(LogDomain(circuit, i)) % Pow2(circuit.folding_factor) = 0
          /\ Pow2(LogDomain(circuit, i)) \div Pow2(circuit.folding_factor) >= 2
          /\ CeilLog2(Pow2(LogDomain(circuit, i)) \div Pow2(circuit.folding_factor)) >= 1

\* log_degree = M * k = 4 at rate 1/2: the domains have 2^5 and 2^4 points
\* and the last queried tree has 2^4 / 2^2 = 4 leaves
WhirDomainHalvesWitness ==
  /\ status = "constructed" /\ circuit.family = "WHIR"
  /\ circuit.num_iterations = 2 /\ circuit.folding_factor = 2
  /\ LogDomain(circuit, 0) = 5 /\ LogDomain(circuit, 1) = 4 /\ LogDomain(circuit, 2) = 3


\* the rows of the tables of ZisK
ZiskRows ==
  {ZISK_BASE_CIRCUITS[i] : i \in DOMAIN ZISK_BASE_CIRCUITS}
    \cup {ZISK_RECURSIVE_CIRCUITS[i] : i \in DOMAIN ZISK_RECURSIVE_CIRCUITS}

\* n divided by the factors in turn
RECURSIVE DividedBy(_, _)
DividedBy(n, factors) ==
  IF factors = << >> THEN n ELSE DividedBy(n \div Head(factors), Tail(factors))

\* what the construction validates, on the circuit it returned
PassedValidation(self) ==
  /\ self.num_columns <= self.batch_size
  /\ DividedBy(IntOf(self.D), self.FRI_folding_factors) = self.FRI_early_stop_degree
  /\ self.FRI_rounds_n = Len(self.FRI_folding_factors)

\* a built-in preset was constructed
PresetCalled ==
  /\ status # "idle"
  /\ \/ family = "_make_circuit" /\ cfg \in ZiskRows
     \/ family = "_main_circuit"

\* C29: every built-in FRI preset, the 21 base and 8 recursive rows of ZisK,
\* Miden and RISC0, passes the validation of the construction: num_columns
\* <= batch_size, and D divided by the folding factors in turn is the early
\* stop degree; for the rows of ZisK, bits + bf is the first entry of fri_fa
PresetsPassValidation ==
  /\ Len(ZISK_BASE_CIRCUITS) = 21 /\ Len(ZISK_RECURSIVE_CIRCUITS) = 8
  /\ PresetCalled =>
       /\ status = "returned"
       /\ PassedValidation(proof_size.val)
       /\ family = "_make_circuit" =>
            cfg.bits + cfg.bf = int(Head(split(cfg.fri_fa, "-")))

\* the row "Final": 2^16 rows at rate 1/16, the domain of 2^20 points folded
\* by 32 twice down to 2^10
PresetsPassValidationWitness ==
  /\ status = "returned"
  /\ family = "_make_circuit" /\ cfg.name = "Final" /\ cfg.bits = 16
  /\ proof_size.val.FRI_folding_factors = <<32, 32>>
  /\ proof_size.val.FRI_early_stop_degree = 1024
  /\ IntOf(proof_size.val.D) = Pow2(20)
  /\ proof_size.val.FRI_rounds_n = 2


\* DummyWHIRPreset.default() has run on the configuration cfg
DummyWHIRCalled == family = "DummyWHIRPreset.default" /\ status # "idle"

\* C30: the DummyWHIR preset (log_inv_rate = 1, num_iterations = 5,
\* folding_factor = 4, log_degree = 23, batch_size = 100, constraint_degree
\* = 1, Goldilocks^2, with its arrays) satisfies every check of the WHIR
\* construction, so that DummyWHIRPreset.default() yields a constructed
\* circuit
DummyWHIRIsConstructed ==
  (DummyWHIRCalled /\ cfg = DummyWHIRConfig) =>
    /\ status = "returned"
    /\ proof_size.val.family = "WHIR"

\* the construction of the preset is aborted by the check of the constraint
\* degree, and by no other: with constraint degree 3 it succeeds
DummyWHIRFailsOnConstraintDegree ==
  DummyWHIRCalled =>
    IF cfg.constraint_degree >= 3
    THEN /\ status = "returned"
         /\ proof_size.val.log_degrees = <<23, 19, 15, 11, 7, 3>>
         /\ proof_size.val.log_inv_rates = <<1, 4, 7, 10, 13, 16>>
    ELSE status = "raised" /\ failed = "constraint_degree"


=========================================================================
